---------------------------- MODULE Spec2Model ----------------------------
(***************************************************************************)
(* Country-safe point placement (src/src/geoPlacement.js).                 *)
(*                                                                         *)
(* Number model.  Coordinates are fixed-point integers in units of 1e-4    *)
(* degree (10000 units per degree); every rectangle of the country table   *)
(* and every inset of it is exact in that unit.  32-bit words are pairs    *)
(* <<hi, lo>> of 16-bit halves so that no intermediate product leaves the  *)
(* range of 32-bit integers; all word arithmetic is modulo 2^32.          *)
(* JavaScript values that are not finite numbers (NaN, Infinity, null,     *)
(* undefined) are tagged values, and an absent field reads as undefined.   *)
(***************************************************************************)
EXTENDS Integers, Sequences, FiniteSets, TLC

\* ------------------------------------------------------------------------
\* 32-bit word arithmetic
\* ------------------------------------------------------------------------
W16 == 256 * 256

RECURSIVE XorBits(_, _, _)
XorBits(a, b, n) ==
  IF n = 0 THEN 0
  ELSE (((a % 2) + (b % 2)) % 2) + 2 * XorBits(a \div 2, b \div 2, n - 1)

RECURSIVE OrBits(_, _, _)
OrBits(a, b, n) ==
  IF n = 0 THEN 0
  ELSE (IF a % 2 = 1 \/ b % 2 = 1 THEN 1 ELSE 0)
       + 2 * OrBits(a \div 2, b \div 2, n - 1)

\* The bitwise operations on 4-bit digits, tabulated once
XorNibble == [a \in 0..15 |-> [b \in 0..15 |-> XorBits(a, b, 4)]]
OrNibble  == [a \in 0..15 |-> [b \in 0..15 |-> OrBits(a, b, 4)]]

\* A bitwise operation on 16-bit numbers, digit by digit
Bitwise16(T, a, b) ==
  T[a % 16][b % 16]
  + 16 * T[(a \div 16) % 16][(b \div 16) % 16]
  + 256 * T[(a \div 256) % 16][(b \div 256) % 16]
  + 4096 * T[a \div 4096][b \div 4096]

\* const v = ...: the value v is computed once and handed to F
Const(v, F(_)) == CHOOSE r \in { F(a) : a \in {v} } : TRUE

\* x ^ y on 32-bit words
Xor32(x, y) ==
  Const(<< x, y >>, LAMBDA p :
    << Bitwise16(XorNibble, p[1][1], p[2][1]),
       Bitwise16(XorNibble, p[1][2], p[2][2]) >>)

\* x | y on 32-bit words
Or32(x, y) ==
  Const(<< x, y >>, LAMBDA p :
    << Bitwise16(OrNibble, p[1][1], p[2][1]),
       Bitwise16(OrNibble, p[1][2], p[2][2]) >>)

\* (x + y) mod 2^32
Add32(x, y) ==
  Const(<< x, y >>, LAMBDA p :
    LET lo == p[1][2] + p[2][2]
    IN  << (p[1][1] + p[2][1] + lo \div W16) % W16, lo % W16 >>)

\* The full 32-bit product <<hi, lo>> of two 16-bit numbers.
Mul16(a, b) ==
  Const(<< a \div 256, a % 256, b \div 256, b % 256 >>, LAMBDA d :
    Const(d[2] * d[3] + d[1] * d[4], LAMBDA mid :
      Const(d[2] * d[4] + (mid % 256) * 256, LAMBDA t :
        << d[1] * d[3] + mid \div 256 + t \div W16, t % W16 >>)))

\* Math.imul(x, y): the low 32 bits of the product
Imul(x, y) ==
  Const(<< x, y >>, LAMBDA p :
    Const(<< Mul16(p[1][2], p[2][2]), Mul16(p[1][1], p[2][2]),
             Mul16(p[1][2], p[2][1]) >>, LAMBDA m :
      << (m[1][1] + m[2][2] + m[3][2]) % W16, m[1][2] >>))

RECURSIVE Pow2(_)
Pow2(k) == IF k = 0 THEN 1 ELSE 2 * Pow2(k - 1)

\* x >>> k for 0 < k < 16
Shr32(x, k) ==
  Const(<< x, Pow2(k), Pow2(16 - k) >>, LAMBDA p :
    << p[1][1] \div p[2],
       p[1][2] \div p[2] + (p[1][1] % p[2]) * p[3] >>)

\* A small non-negative integer as a 32-bit word
Word(n) == << n \div W16, n % W16 >>

FNV_OFFSET == << 33052, 40389 >>     \* 2166136261 = 0x811C9DC5
FNV_PRIME  == << 256, 403 >>         \* 16777619   = 0x01000193
MB_GAMMA   == << 27947, 31221 >>     \* 0x6D2B79F5

\* hash32(str): FNV-1a over the character codes of str
RECURSIVE HashFrom(_, _, _)
HashFrom(h, str, i) ==
  IF i > Len(str) THEN h
  ELSE Const(Imul(Xor32(h, Word(str[i])), FNV_PRIME), LAMBDA h1 :
         HashFrom(h1, str, i + 1))

\* (the fold started from 0)
HashWithoutOffset(str) == Const(str, LAMBDA s : HashFrom(Word(0), s, 1))

hash32(str) == Const(str, LAMBDA s : HashFrom(FNV_OFFSET, s, 1))

\* mulberry32(a): the closure's captured state is the word a.  One call of
\* the returned function advances the state and yields a 32-bit word u, the
\* number returned being u / 2^32.
mulberry32(a) == a

RndState(a) == Add32(a, MB_GAMMA)

RndWord(a) ==
  Const(Add32(a, MB_GAMMA), LAMBDA t0 :
    Const(Imul(Xor32(t0, Shr32(t0, 15)), Or32(t0, Word(1))), LAMBDA t1 :
      Const(Xor32(t1, Add32(t1, Imul(Xor32(t1, Shr32(t1, 7)),
                                     Or32(t1, Word(61))))), LAMBDA t2 :
        Xor32(t2, Shr32(t2, 14)))))

\* floor((u / 2^32) * n) for a word u and 0 <= n < 2^21
ScaleWord(u, n) ==
  Const(<< u, n \div W16, n % W16 >>, LAMBDA p :
    Const(<< Mul16(p[1][1], p[3]), Mul16(p[1][2], p[3]) >>, LAMBDA m :
      p[1][1] * p[2] + m[1][1]
        + (m[1][2] + p[1][2] * p[2] + m[2][1]) \div W16))

\* ------------------------------------------------------------------------
\* Units and trigonometry
\* ------------------------------------------------------------------------
Abs(n) == Const(n, LAMBDA v : IF v < 0 THEN -v ELSE v)
Max(a, b) == Const(<< a, b >>, LAMBDA p : IF p[1] >= p[2] THEN p[1] ELSE p[2])
Min(a, b) == Const(<< a, b >>, LAMBDA p : IF p[1] <= p[2] THEN p[1] ELSE p[2])

\* n / d rounded to the nearest integer (d > 0), halves away from zero
RoundDiv(n, d) ==
  Const(<< n, d >>, LAMBDA p :
    IF p[1] >= 0 THEN (2 * p[1] + p[2]) \div (2 * p[2])
    ELSE -((2 * (-p[1]) + p[2]) \div (2 * p[2])))

PI_URAD     == 3141593               \* pi in micro-radians
TWO_PI_URAD == 2 * PI_URAD - 1       \* 6283185
GOLDEN_ANGLE == 2399963              \* pi * (3 - sqrt(5)) in micro-radians

\* cos and sin of an angle x in milli-radians, 0 <= x <= 786 (pi/4),
\* scaled by 10^6: the series 1 - x^2/2 + x^4/24 - x^6/720 and
\* x - x^3/6 + x^5/120 - x^7/5040
CosQ(x) ==
  Const(x, LAMBDA v :
    LET x2 == (v * v) \div 1000
        x4 == (x2 * x2) \div 24
        x6 == ((x4 * x2) \div 30) \div 1000
    IN  1000000 - (v * v) \div 2 + x4 - x6)

SinQ(x) ==
  Const(x, LAMBDA v :
    LET x2 == (v * v) \div 1000
        x3 == (x2 * v) \div 6
        x5 == ((x3 * x2) \div 20) \div 1000
        x7 == ((x5 * x2) \div 42) \div 1000
    IN  v * 1000 - x3 + x5 - x7)

\* cos of an angle f in micro-radians, 0 <= f <= pi/2, scaled by 10^6
CosFirstQuadrant(f) ==
  Const(f, LAMBDA v :
    IF 4 * v <= PI_URAD THEN CosQ(RoundDiv(v, 1000))
    ELSE SinQ(RoundDiv(PI_URAD \div 2 - v, 1000)))

\* Math.cos of an angle in micro-radians, scaled by 10^6
MathCos(urad) ==
  Const(Abs(urad) % TWO_PI_URAD, LAMBDA m :
    LET f == IF m > PI_URAD THEN TWO_PI_URAD - m ELSE m        \* 0 .. pi
    IN  IF 2 * f <= PI_URAD THEN CosFirstQuadrant(f)
        ELSE -CosFirstQuadrant(PI_URAD - f))

\* Math.sin of an angle in micro-radians, scaled by 10^6: cos(pi/2 - x)
MathSin(urad) ==
  Const(urad, LAMBDA v : IF v = 0 THEN 0 ELSE MathCos(PI_URAD \div 2 - v))

\* metersToDegrees(lat, dxMeters, dyMeters): the offsets are in millimetres
\* and the result in coordinate units (111111 m per degree is 11111.1 mm
\* per unit, and 10^7 / 111111 = 90).  `|| 1e-6` replaces a zero denominator.
metersToDegrees(lat, dxMm, dyMm) ==
  Const(MathCos(RoundDiv(Abs(lat) * 349, 200)), LAMBDA c :  \* lat in micro-radians
    LET denom == IF c = 0 THEN 1 ELSE c
    IN  [dLat |-> RoundDiv(dyMm * 10, 111111),
         dLon |-> RoundDiv(dxMm * 90, denom)])

\* ------------------------------------------------------------------------
\* Rect utilities
\* ------------------------------------------------------------------------
clamp(x, a, b) == Max(a, Min(b, x))

insideRect(lat, lon, rect) ==
  \E p \in {<< lat, lon, rect >>} :
    /\ p[1] >= p[3].lat[1] /\ p[1] <= p[3].lat[2]
    /\ p[2] >= p[3].lon[1] /\ p[2] <= p[3].lon[2]

\* insetRect(rect, pct): pct is in hundredths (0.04 is 4)
insetRect(rect, pct) ==
  Const(<< rect, pct >>, LAMBDA p :
    LET latSpan == p[1].lat[2] - p[1].lat[1]
        lonSpan == p[1].lon[2] - p[1].lon[1]
        padLat  == (latSpan * p[2]) \div 100
        padLon  == (lonSpan * p[2]) \div 100
    IN  [lat |-> << p[1].lat[1] + padLat, p[1].lat[2] - padLat >>,
         lon |-> << p[1].lon[1] + padLon, p[1].lon[2] - padLon >>])

\* (the point returned as it is)
ClampSkipped(lat, lon, rect) == [lat |-> lat, lon |-> lon]

clampToRect(lat, lon, rect) ==
  Const(rect, LAMBDA r :
    [lat |-> clamp(lat, r.lat[1], r.lat[2]),
     lon |-> clamp(lon, r.lon[1], r.lon[2])])

\* d * d as a two-limb number <<hi, lo>> in base 2^20, for 0 <= d < 2^22
Square(d) ==
  Const(d, LAMBDA v :
    LET a   == v \div 1024
        b   == v % 1024
        mid == 2 * a * b
        lo  == (mid % 1024) * 1024 + b * b
    IN  << a * a + mid \div 1024 + lo \div 1048576, lo % 1048576 >>)

AddWide(p, q) ==
  Const(<< p, q >>, LAMBDA s :
    LET lo == s[1][2] + s[2][2]
    IN  << s[1][1] + s[2][1] + lo \div 1048576, lo % 1048576 >>)

\* (d <= bestD in place of d < bestD)
NotGreaterWide(p, q) == p[1] < q[1] \/ (p[1] = q[1] /\ p[2] <= q[2])

LessWide(p, q) == p[1] < q[1] \/ (p[1] = q[1] /\ p[2] < q[2])

Infinity == << 1073741824, 0 >>       \* above every squared distance

\* rectDist2(lat, lon, rect): 0 if inside, else squared distance (units^2)
rectDist2(lat, lon, rect) ==
  Const(<< lat, lon, rect >>, LAMBDA p :
    LET dy == IF p[1] < p[3].lat[1] THEN p[3].lat[1] - p[1]
              ELSE IF p[1] > p[3].lat[2] THEN p[1] - p[3].lat[2] ELSE 0
        dx == IF p[2] < p[3].lon[1] THEN p[3].lon[1] - p[2]
              ELSE IF p[2] > p[3].lon[2] THEN p[2] - p[3].lon[2] ELSE 0
    IN  AddWide(Square(dx), Square(dy)))

insideAny(lat, lon, rects) ==
  \E p \in {<< lat, lon, rects >>} :
    \E i \in 1..Len(p[3]) : insideRect(p[1], p[2], p[3][i])

\* The loop `for (const r of rects) { if (d < bestD) ... }`: the index of
\* the rectangle kept in `best` after scanning rects[1..i]
RECURSIVE BestFrom(_, _, _, _, _, _)
BestFrom(lat, lon, rects, i, best, bestD) ==
  IF i > Len(rects) THEN best
  ELSE Const(rectDist2(lat, lon, rects[i]), LAMBDA d :
         IF LessWide(d, bestD)
         THEN BestFrom(lat, lon, rects, i + 1, i, d)
         ELSE BestFrom(lat, lon, rects, i + 1, best, bestD))

BestRect(lat, lon, rects) ==
  Const(<< lat, lon, rects >>, LAMBDA p :
    p[3][BestFrom(p[1], p[2], p[3], 1, 1, Infinity)])

clampToBestRect(lat, lon, rects) ==
  Const(<< lat, lon, rects >>, LAMBDA p :
    clampToRect(p[1], p[2], BestRect(p[1], p[2], p[3])))

\* Spiral within a specific rect.  r is in millimetres, theta in
\* micro-radians; GOLDEN_ANGLE * 1.15 is 2759957 micro-radians.
SPIRAL_TRIES == 12

\* (a candidate returned without the insideRect test)
SpiralFromUnchecked(centerLat, centerLon, rect, r, theta, tries) ==
  Const(metersToDegrees(centerLat,
          RoundDiv(RoundDiv(MathCos(theta), 100) * RoundDiv(r, 100), 100),
          RoundDiv(RoundDiv(MathSin(theta), 100) * RoundDiv(r, 100), 100)),
        LAMBDA d : [lat |-> centerLat + d.dLat, lon |-> centerLon + d.dLon])

RECURSIVE SpiralFrom(_, _, _, _, _, _)
SpiralFrom(centerLat, centerLon, rect, r, theta, tries) ==
  IF tries >= SPIRAL_TRIES THEN clampToRect(centerLat, centerLon, rect)
  ELSE Const(metersToDegrees(centerLat,
               RoundDiv(RoundDiv(MathCos(theta), 100) * RoundDiv(r, 100), 100),
               RoundDiv(RoundDiv(MathSin(theta), 100) * RoundDiv(r, 100), 100)),
         LAMBDA d :
           LET lat == centerLat + d.dLat
               lon == centerLon + d.dLon
           IN  IF insideRect(lat, lon, rect) THEN [lat |-> lat, lon |-> lon]
               ELSE Const(<< (r * 62) \div 100,
                             theta + (GOLDEN_ANGLE * 115) \div 100 >>,
                      LAMBDA next :
                        SpiralFrom(centerLat, centerLon, rect,
                                   next[1], next[2], tries + 1)))

\* (every index treated as index 0)
SpiralAtIndexZero(centerLat, centerLon, rect, n) ==
  Const(<< centerLat, centerLon, rect >>, LAMBDA p :
    SpiralFrom(p[1], p[2], p[3], 380000, 0, 0))

\* (the radius without its base)
SpiralWithoutBase(centerLat, centerLon, rect, n) ==
  Const(<< centerLat, centerLon, rect, n >>, LAMBDA p :
    SpiralFrom(p[1], p[2], p[3], p[4] * 240000, p[4] * GOLDEN_ANGLE, 0))

\* (the search entered with one try already counted)
SpiralOneTryShort(centerLat, centerLon, rect, n) ==
  Const(<< centerLat, centerLon, rect, n >>, LAMBDA p :
    SpiralFrom(p[1], p[2], p[3], 380000 + p[4] * 240000, p[4] * GOLDEN_ANGLE, 1))

spiralWithinRect(centerLat, centerLon, rect, n) ==
  Const(<< centerLat, centerLon, rect, n >>, LAMBDA p :
    SpiralFrom(p[1], p[2], p[3], 380000 + p[4] * 240000, p[4] * GOLDEN_ANGLE, 0))

\* ------------------------------------------------------------------------
\* JavaScript values
\* ------------------------------------------------------------------------
\* A finite number.  In lat/lon the payload is in coordinate units; in
\* id/url/title it is a non-negative integer.
Num(n) == [t |-> "num", v |-> n]
NaN    == [t |-> "nan"]
PosInf == [t |-> "inf"]
Null   == [t |-> "null"]
Undef  == [t |-> "undef"]
\* A string, as the sequence of its character codes
Str(s) == [t |-> "str", s |-> s]
Bool(b) == [t |-> "bool", b |-> b]
\* An object that is not an array
PlainObject == [t |-> "obj"]
\* An array, when it stands among values of other types
Array(s) == [t |-> "array", elems |-> s]

\* An article object is a function from its own property names to values;
\* `country` holds a plain string, every other property a tagged value.
\* An array element may also be null or undefined.
IsObject(a) == "t" \notin DOMAIN a

\* a.f: reading an absent property gives undefined
Get(a, f) == IF f \in DOMAIN a THEN a[f] ELSE Undef

\* ToBoolean
Truthy(v) ==
  CASE v.t = "num" -> v.v # 0
    [] v.t = "str" -> Len(v.s) > 0
    [] v.t = "inf" -> TRUE
    [] v.t = "bool" -> v.b
    [] v.t \in { "obj", "array" } -> TRUE
    [] OTHER       -> FALSE

\* !a || !a.country
NoCountry(a) == ~IsObject(a) \/ "country" \notin DOMAIN a \/ a.country = ""

\* Number(v)
ToNumber(v) ==
  CASE v.t = "num"  -> v
    [] v.t = "null" -> Num(0)
    [] v.t = "inf"  -> PosInf
    [] OTHER        -> NaN

\* Number.isFinite(v): no conversion, only a finite number passes
NumberIsFinite(v) == v.t = "num"

\* The decimal digits of a non-negative integer, as character codes
RECURSIVE Digits(_)
Digits(n) == IF n < 10 THEN << 48 + n >> ELSE Digits(n \div 10) \o << 48 + (n % 10) >>

\* String(v) for an integer or a string
ToStr(v) ==
  CASE v.t = "str" -> v.s
    [] v.t = "num" -> IF v.v < 0 THEN << 45 >> \o Digits(-v.v) ELSE Digits(v.v)

\* x.toFixed(3): the sign and the magnitude in thousandths of a degree,
\* rounded to nearest (a negative number keeps its sign even when it
\* rounds to zero: "-0.000"), or the text of a non-finite number
ToFixed3(x) ==
  CASE x.t = "nan" -> << "NaN", 0 >>
    [] x.t = "inf" -> << "Infinity", 0 >>
    [] x.t = "num" -> << IF x.v < 0 THEN "-" ELSE "", (Abs(x.v) + 5) \div 10 >>

\* keyFor(a): `${a.country || "?"}|${Number(a.lat).toFixed(3)},${Number(a.lon).toFixed(3)}`
keyFor(a) ==
  << IF NoCountry(a) THEN "?" ELSE a.country,
     ToFixed3(ToNumber(Get(a, "lat"))),
     ToFixed3(ToNumber(Get(a, "lon"))) >>

\* ------------------------------------------------------------------------
\* Country "safe rectangles": the table of src/src/geoPlacement.js, in
\* coordinate units, with insetPct in hundredths
\* ------------------------------------------------------------------------
countryBounds ==
  ("India" :>
      [lat |-> <<60000, 350000>>, lon |-> <<680000, 970000>>, insetPct |-> 4,
       patches |-> <<
          [lat |-> <<80000, 210000>>, lon |-> <<730000, 780000>>],
          [lat |-> <<100000, 200000>>, lon |-> <<780000, 840000>>],
          [lat |-> <<150000, 220000>>, lon |-> <<720000, 760000>>],
          [lat |-> <<220000, 280000>>, lon |-> <<730000, 840000>>],
          [lat |-> <<260000, 320000>>, lon |-> <<740000, 790000>>],
          [lat |-> <<110000, 135000>>, lon |-> <<760000, 800000>>],
          [lat |-> <<170000, 195000>>, lon |-> <<810000, 850000>>],
          [lat |-> <<230000, 270000>>, lon |-> <<880000, 920000>>] >>]) @@
  ("Pakistan" :>
      [lat |-> <<237000, 371000>>, lon |-> <<609000, 770000>>,
       patches |-> <<
          [lat |-> <<245000, 280000>>, lon |-> <<660000, 700000>>],
          [lat |-> <<280000, 330000>>, lon |-> <<690000, 730000>>],
          [lat |-> <<310000, 355000>>, lon |-> <<710000, 745000>>],
          [lat |-> <<260000, 300000>>, lon |-> <<628000, 675000>>] >>]) @@
  ("Bangladesh" :>
      [lat |-> <<206000, 267000>>, lon |-> <<880000, 927000>>,
       patches |-> <<
          [lat |-> <<222000, 245000>>, lon |-> <<890000, 910000>>],
          [lat |-> <<240000, 262000>>, lon |-> <<900000, 923000>>] >>]) @@
  ("Sri Lanka" :>
      [lat |-> <<57000, 100000>>, lon |-> <<795000, 821000>>,
       patches |-> <<
          [lat |-> <<62000, 94000>>, lon |-> <<799000, 819000>>] >>]) @@
  ("Nepal" :>
      [lat |-> <<263000, 305000>>, lon |-> <<800000, 885000>>,
       patches |-> <<
          [lat |-> <<270000, 293000>>, lon |-> <<810000, 865000>>] >>]) @@
  ("Bhutan" :>
      [lat |-> <<266000, 284000>>, lon |-> <<887000, 922000>>,
       patches |-> <<
          [lat |-> <<268000, 282000>>, lon |-> <<890000, 918000>>] >>]) @@
  ("China" :>
      [lat |-> <<181000, 536000>>, lon |-> <<735000, 1348000>>,
       patches |-> <<
          [lat |-> <<220000, 270000>>, lon |-> <<1100000, 1160000>>],
          [lat |-> <<280000, 360000>>, lon |-> <<1050000, 1180000>>],
          [lat |-> <<360000, 450000>>, lon |-> <<1100000, 1260000>>],
          [lat |-> <<300000, 330000>>, lon |-> <<1200000, 1230000>>] >>]) @@
  ("Japan" :>
      [lat |-> <<240000, 457000>>, lon |-> <<1229000, 1459000>>,
       patches |-> <<
          [lat |-> <<340000, 365000>>, lon |-> <<1350000, 1395000>>],
          [lat |-> <<352000, 362000>>, lon |-> <<1392000, 1408000>>],
          [lat |-> <<343000, 356000>>, lon |-> <<1320000, 1350000>>],
          [lat |-> <<330000, 348000>>, lon |-> <<1290000, 1310000>>],
          [lat |-> <<430000, 447000>>, lon |-> <<1410000, 1430000>>],
          [lat |-> <<341000, 346000>>, lon |-> <<1340000, 1347000>>] >>]) @@
  ("South Korea" :>
      [lat |-> <<330000, 386000>>, lon |-> <<1246000, 1319000>>,
       patches |-> <<
          [lat |-> <<350000, 378000>>, lon |-> <<1268000, 1295000>>],
          [lat |-> <<331000, 336000>>, lon |-> <<1261000, 1269000>>] >>]) @@
  ("Taiwan" :>
      [lat |-> <<217000, 254000>>, lon |-> <<1199000, 1222000>>,
       patches |-> <<
          [lat |-> <<225000, 251000>>, lon |-> <<1201000, 1220000>>] >>]) @@
  ("Indonesia" :>
      [lat |-> << -112000, 64000>>, lon |-> <<950000, 1410000>>,
       patches |-> <<
          [lat |-> << -82000, -60000>>, lon |-> <<1070000, 1130000>>],
          [lat |-> << -78000, -68000>>, lon |-> <<1120000, 1149000>>],
          [lat |-> << -35000, 5000>>, lon |-> <<1020000, 1060000>>],
          [lat |-> << -20000, 15000>>, lon |-> <<1060000, 1120000>>],
          [lat |-> << -20000, 15000>>, lon |-> <<1120000, 1150000>>],
          [lat |-> << -55000, -15000>>, lon |-> <<1190000, 1218000>>],
          [lat |-> << -89000, -78000>>, lon |-> <<1145000, 1160000>>] >>]) @@
  ("Philippines" :>
      [lat |-> <<44000, 213000>>, lon |-> <<1169000, 1266000>>,
       patches |-> <<
          [lat |-> <<144000, 160000>>, lon |-> <<1206000, 1220000>>],
          [lat |-> <<100000, 119000>>, lon |-> <<1223000, 1242000>>],
          [lat |-> <<65000, 85000>>, lon |-> <<1240000, 1262000>>] >>]) @@
  ("Vietnam" :>
      [lat |-> <<83000, 234000>>, lon |-> <<1021000, 1096000>>,
       patches |-> <<
          [lat |-> <<103000, 115000>>, lon |-> <<1062000, 1075000>>],
          [lat |-> <<160000, 176000>>, lon |-> <<1075000, 1090000>>],
          [lat |-> <<204000, 217000>>, lon |-> <<1054000, 1068000>>] >>]) @@
  ("Thailand" :>
      [lat |-> <<55000, 205000>>, lon |-> <<973000, 1057000>>,
       patches |-> <<
          [lat |-> <<130000, 155000>>, lon |-> <<1002000, 1015000>>],
          [lat |-> <<160000, 182000>>, lon |-> <<1002000, 1020000>>],
          [lat |-> <<70000, 90000>>, lon |-> <<988000, 1004000>>] >>]) @@
  ("Malaysia" :>
      [lat |-> <<8000, 75000>>, lon |-> <<996000, 1047000>>,
       patches |-> <<
          [lat |-> <<25000, 48000>>, lon |-> <<1015000, 1035000>>],
          [lat |-> <<51000, 68000>>, lon |-> <<1002000, 1020000>>] >>]) @@
  ("Singapore" :>
      [lat |-> <<11600, 14900>>, lon |-> <<1035700, 1039900>>, insetPct |-> 0,
       patches |-> <<
          [lat |-> <<12400, 14500>>, lon |-> <<1036500, 1039500>>] >>]) @@
  ("Turkey" :>
      [lat |-> <<358000, 423000>>, lon |-> <<257000, 448000>>,
       patches |-> <<
          [lat |-> <<380000, 415000>>, lon |-> <<265000, 305000>>],
          [lat |-> <<375000, 390000>>, lon |-> <<325000, 365000>>],
          [lat |-> <<365000, 382000>>, lon |-> <<390000, 425000>>] >>]) @@
  ("Iran" :>
      [lat |-> <<247000, 398000>>, lon |-> <<440000, 633000>>,
       patches |-> <<
          [lat |-> <<295000, 338000>>, lon |-> <<490000, 550000>>],
          [lat |-> <<354000, 377000>>, lon |-> <<500000, 536000>>],
          [lat |-> <<275000, 297000>>, lon |-> <<568000, 595000>>] >>]) @@
  ("Iraq" :>
      [lat |-> <<290000, 374000>>, lon |-> <<388000, 486000>>,
       patches |-> <<
          [lat |-> <<330000, 356000>>, lon |-> <<430000, 458000>>],
          [lat |-> <<307000, 328000>>, lon |-> <<460000, 482000>>] >>]) @@
  ("Israel" :>
      [lat |-> <<294000, 334000>>, lon |-> <<342000, 359000>>,
       patches |-> <<
          [lat |-> <<311000, 327000>>, lon |-> <<347000, 353000>>],
          [lat |-> <<320000, 332000>>, lon |-> <<350000, 356000>>] >>]) @@
  ("Jordan" :>
      [lat |-> <<292000, 334000>>, lon |-> <<349000, 393000>>,
       patches |-> <<
          [lat |-> <<311000, 323000>>, lon |-> <<356000, 362000>>],
          [lat |-> <<302000, 311000>>, lon |-> <<350000, 360000>>] >>]) @@
  ("Egypt" :>
      [lat |-> <<220000, 317000>>, lon |-> <<247000, 369000>>,
       patches |-> <<
          [lat |-> <<250000, 300000>>, lon |-> <<290000, 330000>>],
          [lat |-> <<270000, 310000>>, lon |-> <<323000, 342000>>] >>]) @@
  ("Morocco" :>
      [lat |-> <<213000, 359000>>, lon |-> << -172000, -10000>>,
       patches |-> <<
          [lat |-> <<300000, 340000>>, lon |-> << -96000, -55000>>],
          [lat |-> <<285000, 312000>>, lon |-> << -80000, -60000>>] >>]) @@
  ("Algeria" :>
      [lat |-> <<189000, 371000>>, lon |-> << -87000, 119000>>,
       patches |-> <<
          [lat |-> <<350000, 369000>>, lon |-> << -58000, 88000>>],
          [lat |-> <<310000, 335000>>, lon |-> <<20000, 70000>>] >>]) @@
  ("Tunisia" :>
      [lat |-> <<302000, 376000>>, lon |-> <<75000, 116000>>,
       patches |-> <<
          [lat |-> <<335000, 369000>>, lon |-> <<85000, 108000>>] >>]) @@
  ("Nigeria" :>
      [lat |-> <<42000, 139000>>, lon |-> <<27000, 147000>>,
       patches |-> <<
          [lat |-> <<60000, 84000>>, lon |-> <<30000, 90000>>],
          [lat |-> <<70000, 96000>>, lon |-> <<85000, 125000>>],
          [lat |-> <<95000, 128000>>, lon |-> <<90000, 138000>>] >>]) @@
  ("Ghana" :>
      [lat |-> <<45000, 112000>>, lon |-> << -33000, 12000>>,
       patches |-> <<
          [lat |-> <<50000, 70000>>, lon |-> << -20000, 8000>>],
          [lat |-> <<72000, 98000>>, lon |-> << -25000, 4000>>] >>]) @@
  ("Kenya" :>
      [lat |-> << -48000, 53000>>, lon |-> <<339000, 419000>>,
       patches |-> <<
          [lat |-> << -13000, 15000>>, lon |-> <<363000, 380000>>],
          [lat |-> << -6000, 30000>>, lon |-> <<345000, 365000>>],
          [lat |-> << -40000, -20000>>, lon |-> <<383000, 405000>>] >>]) @@
  ("South Africa" :>
      [lat |-> << -349000, -221000>>, lon |-> <<165000, 329000>>,
       patches |-> <<
          [lat |-> << -340000, -322000>>, lon |-> <<180000, 200000>>],
          [lat |-> << -265000, -240000>>, lon |-> <<270000, 300000>>],
          [lat |-> << -295000, -280000>>, lon |-> <<300000, 318000>>] >>]) @@
  ("Ethiopia" :>
      [lat |-> <<34000, 149000>>, lon |-> <<329000, 480000>>,
       patches |-> <<
          [lat |-> <<78000, 105000>>, lon |-> <<375000, 405000>>],
          [lat |-> <<110000, 127000>>, lon |-> <<370000, 395000>>] >>]) @@
  ("Sierra Leone" :>
      [lat |-> <<69000, 100000>>, lon |-> << -133000, -103000>>,
       patches |-> <<
          [lat |-> <<74000, 96000>>, lon |-> << -127000, -110000>>] >>]) @@
  ("United Kingdom" :>
      [lat |-> <<499000, 609000>>, lon |-> << -86000, 18000>>,
       patches |-> <<
          [lat |-> <<502000, 558000>>, lon |-> << -60000, -10000>>],
          [lat |-> <<540000, 554000>>, lon |-> << -82000, -53000>>],
          [lat |-> <<560000, 585000>>, lon |-> << -58000, -28000>>] >>]) @@
  ("Ireland" :>
      [lat |-> <<514000, 554000>>, lon |-> << -105000, -53000>>,
       patches |-> <<
          [lat |-> <<523000, 542000>>, lon |-> << -88000, -62000>>] >>]) @@
  ("France" :>
      [lat |-> <<411000, 513000>>, lon |-> << -55000, 97000>>,
       patches |-> <<
          [lat |-> <<445000, 488000>>, lon |-> << -15000, 35000>>],
          [lat |-> <<432000, 452000>>, lon |-> <<50000, 75000>>],
          [lat |-> <<483000, 500000>>, lon |-> <<15000, 32000>>] >>]) @@
  ("Spain" :>
      [lat |-> <<360000, 438000>>, lon |-> << -99000, 44000>>,
       patches |-> <<
          [lat |-> <<395000, 418000>>, lon |-> << -45000, 5000>>],
          [lat |-> <<375000, 390000>>, lon |-> << -40000, -15000>>],
          [lat |-> <<412000, 426000>>, lon |-> << -35000, 5000>>] >>]) @@
  ("Portugal" :>
      [lat |-> <<368000, 422000>>, lon |-> << -96000, -61000>>,
       patches |-> <<
          [lat |-> <<385000, 417000>>, lon |-> << -86000, -71000>>] >>]) @@
  ("Germany" :>
      [lat |-> <<472000, 551000>>, lon |-> <<59000, 151000>>,
       patches |-> <<
          [lat |-> <<488000, 505000>>, lon |-> <<82000, 115000>>],
          [lat |-> <<507000, 532000>>, lon |-> <<70000, 110000>>] >>]) @@
  ("Italy" :>
      [lat |-> <<366000, 471000>>, lon |-> <<66000, 188000>>,
       patches |-> <<
          [lat |-> <<415000, 439000>>, lon |-> <<120000, 145000>>],
          [lat |-> <<440000, 457000>>, lon |-> <<90000, 118000>>],
          [lat |-> <<370000, 384000>>, lon |-> <<132000, 156000>>] >>]) @@
  ("Netherlands" :>
      [lat |-> <<507000, 537000>>, lon |-> <<32000, 73000>>,
       patches |-> <<
          [lat |-> <<516000, 533000>>, lon |-> <<45000, 68000>>] >>]) @@
  ("Belgium" :>
      [lat |-> <<495000, 516000>>, lon |-> <<25000, 64000>>,
       patches |-> <<
          [lat |-> <<506000, 512000>>, lon |-> <<36000, 55000>>] >>]) @@
  ("Switzerland" :>
      [lat |-> <<458000, 478000>>, lon |-> <<59000, 105000>>,
       patches |-> <<
          [lat |-> <<460000, 475000>>, lon |-> <<65000, 95000>>] >>]) @@
  ("Austria" :>
      [lat |-> <<464000, 490000>>, lon |-> <<95000, 170000>>,
       patches |-> <<
          [lat |-> <<472000, 486000>>, lon |-> <<130000, 162000>>] >>]) @@
  ("Poland" :>
      [lat |-> <<490000, 549000>>, lon |-> <<141000, 242000>>,
       patches |-> <<
          [lat |-> <<508000, 527000>>, lon |-> <<170000, 215000>>],
          [lat |-> <<522000, 539000>>, lon |-> <<190000, 228000>>] >>]) @@
  ("Czechia" :>
      [lat |-> <<485000, 511000>>, lon |-> <<121000, 189000>>,
       patches |-> <<
          [lat |-> <<492000, 505000>>, lon |-> <<130000, 169000>>] >>]) @@
  ("Sweden" :>
      [lat |-> <<552000, 691000>>, lon |-> <<111000, 242000>>,
       patches |-> <<
          [lat |-> <<575000, 605000>>, lon |-> <<120000, 187000>>],
          [lat |-> <<602000, 635000>>, lon |-> <<160000, 210000>>] >>]) @@
  ("Norway" :>
      [lat |-> <<579000, 713000>>, lon |-> <<46000, 311000>>,
       patches |-> <<
          [lat |-> <<598000, 630000>>, lon |-> <<60000, 115000>>],
          [lat |-> <<630000, 653000>>, lon |-> <<100000, 155000>>] >>]) @@
  ("Denmark" :>
      [lat |-> <<545000, 578000>>, lon |-> <<80000, 127000>>,
       patches |-> <<
          [lat |-> <<552000, 567000>>, lon |-> <<90000, 115000>>] >>]) @@
  ("Finland" :>
      [lat |-> <<598000, 701000>>, lon |-> <<205000, 316000>>,
       patches |-> <<
          [lat |-> <<608000, 630000>>, lon |-> <<230000, 278000>>],
          [lat |-> <<632000, 658000>>, lon |-> <<240000, 286000>>] >>]) @@
  ("Ukraine" :>
      [lat |-> <<443000, 524000>>, lon |-> <<221000, 402000>>,
       patches |-> <<
          [lat |-> <<485000, 507000>>, lon |-> <<240000, 320000>>],
          [lat |-> <<466000, 483000>>, lon |-> <<302000, 362000>>] >>]) @@
  ("United States" :>
      [lat |-> <<245000, 495000>>, lon |-> << -1250000, -665000>>,
       patches |-> <<
          [lat |-> <<260000, 360000>>, lon |-> << -1190000, -960000>>],
          [lat |-> <<320000, 410000>>, lon |-> << -1100000, -850000>>],
          [lat |-> <<350000, 480000>>, lon |-> << -1000000, -740000>>],
          [lat |-> <<280000, 350000>>, lon |-> << -900000, -800000>>] >>]) @@
  ("Canada" :>
      [lat |-> <<430000, 620000>>, lon |-> << -1400000, -520000>>,
       patches |-> <<
          [lat |-> <<430000, 500000>>, lon |-> << -1240000, -1140000>>],
          [lat |-> <<440000, 500000>>, lon |-> << -1130000, -900000>>],
          [lat |-> <<440000, 510000>>, lon |-> << -890000, -660000>>] >>]) @@
  ("Mexico" :>
      [lat |-> <<143000, 327000>>, lon |-> << -1185000, -865000>>,
       patches |-> <<
          [lat |-> <<190000, 210000>>, lon |-> << -1040000, -995000>>],
          [lat |-> <<250000, 275000>>, lon |-> << -1015000, -980000>>],
          [lat |-> <<165000, 188000>>, lon |-> << -995000, -960000>>] >>]) @@
  ("Brazil" :>
      [lat |-> << -338000, 53000>>, lon |-> << -739000, -348000>>,
       patches |-> <<
          [lat |-> << -245000, -215000>>, lon |-> << -490000, -435000>>],
          [lat |-> << -230000, -190000>>, lon |-> << -475000, -420000>>],
          [lat |-> << -165000, -125000>>, lon |-> << -490000, -430000>>] >>]) @@
  ("Argentina" :>
      [lat |-> << -551000, -218000>>, lon |-> << -737000, -536000>>,
       patches |-> <<
          [lat |-> << -348000, -325000>>, lon |-> << -605000, -570000>>],
          [lat |-> << -336000, -310000>>, lon |-> << -695000, -662000>>] >>]) @@
  ("Chile" :>
      [lat |-> << -559000, -175000>>, lon |-> << -757000, -663000>>,
       patches |-> <<
          [lat |-> << -375000, -335000>>, lon |-> << -735000, -700000>>],
          [lat |-> << -410000, -385000>>, lon |-> << -735000, -710000>>] >>]) @@
  ("Colombia" :>
      [lat |-> << -43000, 134000>>, lon |-> << -791000, -668000>>,
       patches |-> <<
          [lat |-> <<40000, 70000>>, lon |-> << -760000, -730000>>],
          [lat |-> <<60000, 75000>>, lon |-> << -740000, -720000>>] >>]) @@
  ("Peru" :>
      [lat |-> << -184000, 0>>, lon |-> << -814000, -686000>>,
       patches |-> <<
          [lat |-> << -135000, -110000>>, lon |-> << -760000, -730000>>],
          [lat |-> << -125000, -90000>>, lon |-> << -750000, -720000>>] >>]) @@
  ("Australia" :>
      [lat |-> << -437000, -107000>>, lon |-> <<1133000, 1536000>>,
       patches |-> <<
          [lat |-> << -380000, -270000>>, lon |-> <<1440000, 1530000>>],
          [lat |-> << -350000, -300000>>, lon |-> <<1380000, 1470000>>],
          [lat |-> << -330000, -160000>>, lon |-> <<1150000, 1230000>>] >>]) @@
  ("New Zealand" :>
      [lat |-> << -473000, -344000>>, lon |-> <<1664000, 1786000>>,
       patches |-> <<
          [lat |-> << -460000, -410000>>, lon |-> <<1675000, 1745000>>],
          [lat |-> << -400000, -360000>>, lon |-> <<1735000, 1765000>>] >>])

\* Names every object literal inherits from Object.prototype: `k in obj`
\* is true for them and obj[k] is a function or object without lat, lon
\* or patches.
ObjectPrototypeKeys ==
  { "constructor", "toString", "valueOf", "hasOwnProperty", "__proto__" }

ProtoMember == [inherited |-> TRUE]

\* a.country in countryBounds
InCountryBounds(c) == c \in DOMAIN countryBounds \/ c \in ObjectPrototypeKeys

\* countryBounds[c], for c with `c in countryBounds`
Lookup(c) == IF c \in DOMAIN countryBounds THEN countryBounds[c] ELSE ProtoMember

\* p.insetPct ?? def.insetPct ?? 0.04, in hundredths
DEFAULT_INSET == 4

InsetPctOf(p, def) ==
  IF "insetPct" \in DOMAIN p THEN p.insetPct
  ELSE IF "insetPct" \in DOMAIN def THEN def.insetPct
  ELSE DEFAULT_INSET

\* def.patches && def.patches.length
HasPatches(def) == "patches" \in DOMAIN def /\ Len(def.patches) > 0

\* The zone list can be built unless reading rect.lat[1] of the bounds
\* rectangle raises a TypeError (def.lat undefined)
ZonesRaise(def) == ~HasPatches(def) /\ "lat" \notin DOMAIN def

\* Build safe zones: prefer patches if present
SafeZones(def) ==
  IF HasPatches(def)
  THEN [i \in 1..Len(def.patches) |-> insetRect(def.patches[i], InsetPctOf(def.patches[i], def))]
  ELSE << insetRect([lat |-> def.lat, lon |-> def.lon], InsetPctOf(def, def)) >>

\* (the bounds rectangle drawn from, whatever the patches)
PickZonesOfBounds(def) ==
  << insetRect([lat |-> def.lat, lon |-> def.lon], InsetPctOf(def, def)) >>

\* The zone list pickCountryPatchPoint derives for itself
PickZones(def) ==
  LET patches == IF HasPatches(def) THEN def.patches
                 ELSE << [lat |-> def.lat, lon |-> def.lon] >>
  IN  [i \in 1..Len(patches) |-> insetRect(patches[i], InsetPctOf(patches[i], def))]

\* Choose a stable point from a country's patch list.  seedStr is the
\* character-code sequence of a non-empty string (placeArticles always
\* passes "<seed>#<index>", so `seedStr || country` is seedStr).  The
\* result is the point, the zone drawn and the state left in the closure.
pickCountryPatchPoint(country, seedStr) ==
  Const(PickZones(countryBounds[country]), LAMBDA zones :
  Const(mulberry32(hash32(seedStr)), LAMBDA a0 :
  Const(IF Len(zones) > 1 THEN ScaleWord(RndWord(a0), Len(zones)) ELSE 0, LAMBDA idx :
  Const(IF Len(zones) > 1 THEN RndState(a0) ELSE a0, LAMBDA a1 :
  Const(zones[idx + 1], LAMBDA z :
  Const(z.lat[1] + ScaleWord(RndWord(a1), z.lat[2] - z.lat[1]), LAMBDA lat :
  Const(RndState(a1), LAMBDA a2 :
  Const(z.lon[1] + ScaleWord(RndWord(a2), z.lon[2] - z.lon[1]), LAMBDA lon :
  Const(clampToRect(lat, lon, z), LAMBDA pt :
    [lat |-> pt.lat, lon |-> pt.lon, zone |-> idx + 1,
     rng |-> RndState(a2)])))))))))

\* ------------------------------------------------------------------------
\* placeArticles
\* ------------------------------------------------------------------------
VARIABLES
  pc,        \* "idle", "map" (inside items.map), "returned" or "thrown"
  items,     \* the argument of the call in progress (or of the last call)
  buckets,   \* the Map key -> indices built by the pre-pass
  out,       \* the records the map callback has produced so far
  tags,      \* for each produced record, the branch that produced it
  rng,       \* the state left in the last mulberry32 closure
  calls,     \* number of calls made
  log,       \* the completed calls: <<argument, outcome, tags>>
  heap,      \* the caller's array as it is now: element k is object k
  refs,      \* for each produced record, the identity of the object
  probe,     \* a direct application of one function: arguments, result
  app        \* the App component: requestRef, isLoading, its requests and
             \* the state their responses write

vars == << pc, items, buckets, out, tags, rng, calls, log, heap, refs, probe,
           app >>

EmptyMap == [k \in {} |-> << >>]

\* (a map kept from one call to the next)
StaleBuckets == buckets

\* new Map()
NewBuckets == EmptyMap

MapGet(m, k) == IF k \in DOMAIN m THEN m[k] ELSE << >>

MapPush(m, k, idx) ==
  Const(<< m, k, idx >>, LAMBDA p :
    [j \in DOMAIN p[1] \cup {p[2]} |->
       IF j = p[2] THEN Append(MapGet(p[1], p[2]), p[3]) ELSE p[1][j]])

\* items.forEach((a, idx) => { if (!a || !a.country) return; ... push(idx) })
\* over items[i..], idx being 0-based
RECURSIVE GroupFrom(_, _, _)
GroupFrom(m, arr, i) ==
  IF i > Len(arr) THEN m
  ELSE IF NoCountry(arr[i]) THEN GroupFrom(m, arr, i + 1)
  ELSE Const(MapPush(m, keyFor(arr[i]), i - 1), LAMBDA m1 :
         GroupFrom(m1, arr, i + 1))

\* bucket.indexOf(idx)
RECURSIVE IndexOfFrom(_, _, _)
IndexOfFrom(s, x, i) ==
  IF i > Len(s) THEN -1
  ELSE IF s[i] = x THEN i - 1
  ELSE IndexOfFrom(s, x, i + 1)

IndexOf(s, x) == Const(<< s, x >>, LAMBDA p : IndexOfFrom(p[1], p[2], 1))

COUNTRY_DUP_THRESHOLD == 3

\* { ...a }
Spread(a) == IF IsObject(a) THEN a ELSE << >>

\* ({ lat, lon } without the spread)
WithPointOnly(a, lat, lon) == [lat |-> lat, lon |-> lon]

\* { ...a, lat, lon }
WithPoint(a, lat, lon) ==
  [f \in DOMAIN a \cup {"lat", "lon"} |->
     IF f = "lat" THEN lat ELSE IF f = "lon" THEN lon ELSE a[f]]

\* (the position as the only seed)
SeedOfPosition(a, idx) == Str(Digits(idx))

\* a.id || a.url || a.title || `${idx}`
SeedOf(a, idx) ==
  IF Truthy(Get(a, "id")) THEN Get(a, "id")
  ELSE IF Truthy(Get(a, "url")) THEN Get(a, "url")
  ELSE IF Truthy(Get(a, "title")) THEN Get(a, "title")
  ELSE Str(Digits(idx))

\* `${seed}#${localIndex}`
SeedKey(seed, localIndex) == ToStr(seed) \o << 35 >> \o ToStr(Num(localIndex))

\* (the global isFinite, which converts its argument with Number())
MissingCoercing(a) ==
  \/ ~NumberIsFinite(ToNumber(Get(a, "lat")))
  \/ ~NumberIsFinite(ToNumber(Get(a, "lon")))
  \/ (Get(a, "lat") = Num(0) /\ Get(a, "lon") = Num(0))

\* !Number.isFinite(a.lat) || !Number.isFinite(a.lon) || (a.lat === 0 && a.lon === 0)
Missing(a) ==
  \/ ~NumberIsFinite(Get(a, "lat"))
  \/ ~NumberIsFinite(Get(a, "lon"))
  \/ (Get(a, "lat") = Num(0) /\ Get(a, "lon") = Num(0))

\* insideAny(a.lat, a.lon, zones) on the values of a record: a comparison
\* converts its operand with Number(), and every comparison with NaN is
\* false
InsideZones(a, zones) ==
  LET lat == ToNumber(Get(a, "lat"))
      lon == ToNumber(Get(a, "lon"))
  IN  /\ lat.t = "num"
      /\ lon.t = "num"
      /\ insideAny(lat.v, lon.v, zones)

\* The branch of the callback: (1) synthetic point, (2) clamp to the
\* nearest zone, (3) spiral within the closest zone, (4) keep but clamp
Classify(missing, inside, groupSize, localIndex) ==
  IF missing \/ ~inside \/ groupSize >= COUNTRY_DUP_THRESHOLD THEN "A"
  ELSE IF ~inside THEN "B"
  ELSE IF groupSize > 1 /\ localIndex >= 0 THEN "C"
  ELSE "D"

\* The map callback raises: the zone list of an inherited entry
CallbackRaises(a) ==
  /\ ~NoCountry(a)
  /\ InCountryBounds(a.country)
  /\ ZonesRaise(Lookup(a.country))

\* The map callback (a, idx) => ..., idx 0-based, for a record on which it
\* does not raise: the branch taken, the record returned and the
\* generator state left behind
Callback(a, idx, bk, rng0) ==
  IF NoCountry(a) \/ ~InCountryBounds(a.country)
  THEN [tag |-> "copy", rec |-> Spread(a), rng |-> rng0]
  ELSE
    Const(SafeZones(Lookup(a.country)), LAMBDA zones :
    Const(MapGet(bk, keyFor(a)), LAMBDA bucket :
    Const(IndexOf(bucket, idx), LAMBDA localIndex :
    Const(Classify(Missing(a), InsideZones(a, zones), Len(bucket), localIndex),
          LAMBDA tag :
      LET seed == SeedOf(a, idx)
          lat  == ToNumber(Get(a, "lat")).v
          lon  == ToNumber(Get(a, "lon")).v
      IN
        IF tag = "A"
        THEN Const(pickCountryPatchPoint(a.country, SeedKey(seed, localIndex)),
               LAMBDA pt :
                 [tag |-> tag, rec |-> WithPoint(a, Num(pt.lat), Num(pt.lon)),
                  rng |-> pt.rng])
        ELSE IF tag = "C"
        THEN Const(BestRect(lat, lon, zones), LAMBDA best :
             Const(clampToRect(lat, lon, best), LAMBDA center :
             Const(spiralWithinRect(center.lat, center.lon, best, localIndex),
               LAMBDA pt :
                 [tag |-> tag, rec |-> WithPoint(a, Num(pt.lat), Num(pt.lon)),
                  rng |-> rng0])))
        ELSE \* (2) and (4): clampToBestRect
             Const(clampToBestRect(lat, lon, zones), LAMBDA pt :
               [tag |-> tag, rec |-> WithPoint(a, Num(pt.lat), Num(pt.lon)),
                rng |-> rng0])))))

\* ------------------------------------------------------------------------
\* Inputs
\* ------------------------------------------------------------------------
MaxLen == 3            \* longest argument array

\* Character codes of the identity strings used below
IdA == << 97 >>
IdB == << 98 >>
IdC == << 99 >>

\* Israel: bounds lat 29.4..33.4, lon 34.2..35.9; inset zones
\* lat 31.164..32.636 x lon 34.724..35.276 and
\* lat 32.048..33.152 x lon 35.024..35.576 (they overlap).
\* Kenya: first inset zone lat -1.188..1.388 x lon 36.368..37.932.
InsideOne  == [country |-> "Israel", lat |-> Num(315000), lon |-> Num(350000),
               id |-> Str(IdA), title |-> Str(<< 84 >>)]
InsideTwin == [country |-> "Israel", lat |-> Num(315003), lon |-> Num(350004),
               id |-> Str(IdB)]
NearEdge   == [country |-> "Israel", lat |-> Num(315000), lon |-> Num(352750),
               id |-> Num(7)]
InOverlap  == [country |-> "Israel", lat |-> Num(323000), lon |-> Num(351000)]
InGap      == [country |-> "Israel", lat |-> Num(300000), lon |-> Num(345000),
               id |-> Str(IdA)]
NullLat    == [country |-> "Kenya", lat |-> Null, lon |-> Num(370000),
               id |-> Str(IdC)]
NorthOfEquator == [country |-> "Kenya", lat |-> Num(4), lon |-> Num(370000),
                   id |-> Str(IdB)]
SouthOfEquator == [country |-> "Kenya", lat |-> Num(-4), lon |-> Num(370000),
                   id |-> Str(IdA)]
ZeroZero   == [country |-> "Israel", lat |-> Num(0), lon |-> Num(0)]
NoCoords   == [country |-> "Israel", lon |-> PosInf, url |-> Str(IdB)]
Atlantis   == [country |-> "Atlantis", lat |-> NaN, lon |-> Num(50000),
               id |-> Str(IdA)]
Stateless  == [lat |-> Num(315000), lon |-> Num(350000), title |-> Str(<< 84 >>)]
EmptyName  == [country |-> "", lat |-> Null]
Inherited  == [country |-> "toString", lat |-> Num(10000), lon |-> Num(10000),
               title |-> Str(<< 84 >>)]

Records ==
  { InsideOne, InsideTwin, NearEdge, InOverlap, InGap, NullLat, ZeroZero,
    NoCoords, Atlantis, Stateless, EmptyName, Inherited, Null,
    NorthOfEquator, SouthOfEquator }

\* Records for repeated calls: two with null coordinates share a bucket
NullC == [country |-> "Israel", lat |-> Null, lon |-> Null, id |-> Str(IdC)]
NullD == [country |-> "Israel", lat |-> Null, lon |-> Null, id |-> Str(IdB)]

RepeatRecords == { InsideOne, NullC, NullD }

RepeatLen == 2         \* longest argument array in repeated calls
MaxCalls  == 2         \* number of calls in a run of repeated calls

SeqsUpTo(S, n) == UNION { [1..k -> S] : k \in 0..n }

Batches == SeqsUpTo(Records, MaxLen)

RepeatBatches == SeqsUpTo(RepeatRecords, RepeatLen)

\* ------------------------------------------------------------------------
\* The state machine
\* ------------------------------------------------------------------------
\* No function is applied on its own
NoProbe == [fn |-> "none"]

\* The App component as mounted: useState(false) for isLoading,
\* useRef(null) for requestRef, no request made, nothing loaded.  A
\* request is named by its position in ctl, and 0 stands for null.
Mounted ==
  [ requestRef    |-> 0,
    isLoading     |-> FALSE,
    booted        |-> FALSE,
    ctl           |-> << >>,
    events        |-> 0,
    cards         |-> FALSE,
    articles      |-> 0,
    selectedEvent |-> 0,
    countries     |-> 0,
    pins          |-> 0 ]

\* Before the first call
Idle ==
  /\ app = Mounted
  /\ pc = "idle"
  /\ items = << >>
  /\ buckets = EmptyMap
  /\ out = << >>
  /\ tags = << >>
  /\ rng = Word(0)
  /\ calls = 0
  /\ log = {}
  /\ heap = << >>
  /\ refs = << >>

Init == Idle /\ probe = NoProbe

Outcome(ok, val, tg) == [ok |-> ok, val |-> val, tags |-> tg]

\* (the callback writing its result into the record it was given)
ArgumentOverwritten(h, idx, rec) == [h EXCEPT ![idx + 1] = rec]

\* The caller's array after one invocation of the callback: the callback
\* assigns only to its own lat and lon, never to a or to items
ArgumentAfter(h, idx, rec) == h

\* (the record itself returned in place of a copy)
SameObject(n, idx) == idx + 1

\* { ...a } and { ...a, lat, lon } are object literals: each evaluation
\* makes an object that did not exist before.  The n elements of the
\* argument are the objects 1..n; the literal evaluated for index idx is
\* object n + idx + 1.
ObjectLiteral(n, idx) == n + idx + 1

\* placeArticles(b) is entered: the guard and the bucketing pre-pass
Call(b) ==
  /\ pc # "map"
  /\ items' = b
  /\ heap' = b
  /\ refs' = << >>
  /\ calls' = calls + 1
  /\ out' = << >>
  /\ tags' = << >>
  /\ rng' = rng
  /\ probe' = NoProbe
  /\ app' = app
  /\ IF Len(b) = 0
     THEN /\ pc' = "returned"
          /\ buckets' = buckets
          /\ log' = log \cup { << b, Outcome(TRUE, b, << >>) >> }
     ELSE /\ pc' = "map"
          /\ buckets' = GroupFrom(NewBuckets, b, 1)
          /\ log' = log

\* One invocation of the map callback, on items[Len(out) + 1]
MapStep ==
  /\ pc = "map"
  /\ Len(out) < Len(items)
  /\ LET idx == Len(out)
         a   == items[idx + 1]
     IN  IF CallbackRaises(a)
         THEN /\ pc' = "thrown"
              /\ log' = log \cup { << items, Outcome(FALSE, << >>, << >>) >> }
              /\ UNCHANGED << out, tags, rng, heap, refs >>
         ELSE \E r \in { Callback(a, idx, buckets, rng) } :
                  /\ pc' = pc
                  /\ out' = Append(out, r.rec)
                  /\ tags' = Append(tags, r.tag)
                  /\ rng' = r.rng
                  /\ log' = log
                  /\ heap' = ArgumentAfter(heap, idx, r.rec)
                  /\ refs' = Append(refs, ObjectLiteral(Len(items), idx))
  /\ UNCHANGED << items, buckets, calls, probe, app >>

\* items.map(...) is complete: the new array is returned
Return ==
  /\ pc = "map"
  /\ Len(out) = Len(items)
  /\ pc' = "returned"
  /\ log' = log \cup { << items, Outcome(TRUE, out, tags) >> }
  /\ UNCHANGED << items, buckets, out, tags, rng, calls, heap, refs, probe, app >>

\* One call on any argument
CallOnce == calls = 0 /\ \E b \in Batches : Call(b)

Next == CallOnce \/ MapStep \/ Return

Spec == Init /\ [][Next]_vars

\* Several calls in a row, each on any argument
CallAgain == calls < MaxCalls /\ \E b \in RepeatBatches : Call(b)

NextRepeat == CallAgain \/ MapStep \/ Return

SpecRepeat == Init /\ [][NextRepeat]_vars

\* ------------------------------------------------------------------------
\* Four records of India at one point
\* ------------------------------------------------------------------------
IndiaLen == 4          \* longest argument array of records of India

\* A record of India at (28.6, 77.2) with a numeric id
IndiaAt(id) ==
  [country |-> "India", lat |-> Num(286000), lon |-> Num(772000), id |-> Num(id)]

IndiaIds == { 1, 2, 43818, 90468 }

IndiaRecords == { IndiaAt(id) : id \in IndiaIds }

IndiaBatches == SeqsUpTo(IndiaRecords, IndiaLen)

CallIndia == calls = 0 /\ \E b \in IndiaBatches : Call(b)

NextIndia == CallIndia \/ MapStep \/ Return

SpecIndia == Init /\ [][NextIndia]_vars

\* ------------------------------------------------------------------------
\* placeArticles on an argument that is not an array
\* ------------------------------------------------------------------------
\* (items.length read before Array.isArray: null and undefined have no
\* properties)
GuardLengthFirst(arg) ==
  IF arg.t \in { "null", "undef" }
  THEN [raised |-> TRUE]
  ELSE [raised |-> FALSE, ret |-> IF Truthy(arg) THEN arg ELSE Array(<< >>)]

\* if (!Array.isArray(items) || items.length === 0) return items || [];
\* for an argument that is not an array: Array.isArray raises on nothing,
\* and a falsy argument is replaced by a new empty array
Guard(arg) ==
  [raised |-> FALSE, ret |-> IF Truthy(arg) THEN arg ELSE Array(<< >>)]

\* Values that are not arrays
NonArrays ==
  { Undef, Null, NaN, PosInf, PlainObject, Bool(TRUE), Bool(FALSE),
    Num(0), Num(1), Num(-1), Str(<< >>), Str(IdA), Str(<< 48 >>) }

\* placeArticles(arg) with arg not an array: the guard returns at once
CallNonArray(arg) ==
  /\ pc # "map"
  /\ calls' = calls + 1
  /\ probe' = [fn |-> "placeArticles", arg |-> arg] @@ Guard(arg)
  /\ pc' = IF Guard(arg).raised THEN "thrown" ELSE "returned"
  /\ items' = << >>
  /\ heap' = << >>
  /\ refs' = << >>
  /\ out' = << >>
  /\ tags' = << >>
  /\ UNCHANGED << buckets, rng, log, app >>

CallMalformed == calls < MaxCalls /\ \E arg \in NonArrays : CallNonArray(arg)

NextGuard == CallMalformed \/ CallAgain \/ MapStep \/ Return

SpecGuard == Init /\ [][NextGuard]_vars

\* ------------------------------------------------------------------------
\* insetRect and the zone lists of the table, applied on their own
\* ------------------------------------------------------------------------
\* Ranges [lo, hi] with lo <= hi, in coordinate units
Coords == { -900000, 0, 1, 10, 100000 }
Ranges == { << lo, hi >> : lo \in Coords, hi \in Coords } \ { r \in Coords \X Coords : r[1] > r[2] }
Rects == { [lat |-> la, lon |-> lo] : la \in Ranges, lo \in Ranges }

\* Inset percentages, in hundredths: those of the table (0 and 4), the
\* default of insetRect (5), and larger ones
InsetPcts == { 0, 4, 5, 50, 51, 60, 100 }

InsetProbes == { [fn |-> "insetRect", rect |-> r, pct |-> p, done |-> FALSE] : r \in Rects, p \in InsetPcts }
ZoneProbes == { [fn |-> "SafeZones", country |-> c, done |-> FALSE] : c \in DOMAIN countryBounds }

\* Entries of the shapes both zone builders accept that the table does not
\* hold: no patches, an empty patch list, and patches with an insetPct of
\* their own
BoundsOnly   == [lat |-> << 0, 100000 >>, lon |-> << 0, 200000 >>]
EmptyPatches == [lat |-> << 0, 100000 >>, lon |-> << 0, 200000 >>, insetPct |-> 5,
                 patches |-> << >>]
OwnInsets    == [lat |-> << 0, 100000 >>, lon |-> << 0, 200000 >>, insetPct |-> 5,
                 patches |-> << [lat |-> << 0, 50000 >>, lon |-> << 0, 50000 >>, insetPct |-> 0],
                                [lat |-> << 60000, 100000 >>, lon |-> << 100000, 200000 >>] >>]

EntryProbes ==
  { [fn |-> "zones", def |-> d, done |-> FALSE] :
      d \in { countryBounds[c] : c \in DOMAIN countryBounds }
             \cup { BoundsOnly, EmptyPatches, OwnInsets } }

InitInset == Idle /\ probe \in InsetProbes \cup ZoneProbes \cup EntryProbes

\* insetRect(rect, pct)
ApplyInset ==
  /\ probe.fn = "insetRect" /\ ~probe.done
  /\ probe' = [fn |-> "insetRect", rect |-> probe.rect, pct |-> probe.pct, done |-> TRUE,
                ret |-> insetRect(probe.rect, probe.pct)]
  /\ UNCHANGED << pc, items, buckets, out, tags, rng, calls, log,
                  heap, refs, app >>

\* The zone list placeArticles builds for a table entry (lines 135-137)
ApplyZones ==
  /\ probe.fn = "SafeZones" /\ ~probe.done
  /\ probe' = [fn |-> "SafeZones", country |-> probe.country, done |-> TRUE,
                ret |-> SafeZones(countryBounds[probe.country])]
  /\ UNCHANGED << pc, items, buckets, out, tags, rng, calls, log,
                  heap, refs, app >>

\* The zone lists of one entry as placeArticles (lines 135-137) and as
\* pickCountryPatchPoint (lines 94-96) build them
ApplyBothZones ==
  /\ probe.fn = "zones" /\ ~probe.done
  /\ probe' = [fn |-> "zones", def |-> probe.def, done |-> TRUE,
                ret |-> SafeZones(probe.def), pick |-> PickZones(probe.def)]
  /\ UNCHANGED << pc, items, buckets, out, tags, rng, calls, log,
                  heap, refs, app >>

NextInset == ApplyInset \/ ApplyZones \/ ApplyBothZones

SpecInset == InitInset /\ [][NextInset]_vars

\* ------------------------------------------------------------------------
\* spiralWithinRect applied on its own
\* ------------------------------------------------------------------------
\* Centers (lat, lon): 31.5 N 35.0 E, the origin, and a point south-west of
\* the first
SpiralCenters == { << 315000, 350000 >>, << 0, 0 >>, << 314000, 349000 >> }

\* Zones around 31.5 N 35.0 E: a wide one, a box of 0.001 degree around the
\* point, the point alone, two slivers beside it, and a zone far away
WideZone   == [lat |-> << 300000, 330000 >>, lon |-> << 340000, 360000 >>]
BoxZone    == [lat |-> << 314990, 315010 >>, lon |-> << 349990, 350010 >>]
PointZone  == [lat |-> << 315000, 315000 >>, lon |-> << 350000, 350000 >>]
CornerZone == [lat |-> << 314996, 315000 >>, lon |-> << 349998, 350000 >>]
SliverZone == [lat |-> << 315004, 315006 >>, lon |-> << 349999, 350001 >>]
FarZone    == [lat |-> << 100000, 110000 >>, lon |-> << 100000, 110000 >>]

SpiralZones == { WideZone, BoxZone, PointZone, CornerZone, SliverZone, FarZone }

\* Bucket-local indices
SpiralIndices == { 0, 1, 2, 3, 43 }

SpiralProbes ==
  { [fn |-> "spiralWithinRect", centerLat |-> c[1], centerLon |-> c[2],
     rect |-> z, n |-> n, done |-> FALSE] :
      c \in SpiralCenters, z \in SpiralZones, n \in SpiralIndices }

InitSpiral == Idle /\ probe \in SpiralProbes

\* spiralWithinRect(centerLat, centerLon, rect, n)
ApplySpiral ==
  /\ probe.fn = "spiralWithinRect" /\ ~probe.done
  /\ probe' = [probe EXCEPT !.done = TRUE] @@
                [ret |-> spiralWithinRect(probe.centerLat, probe.centerLon, probe.rect, probe.n)]
  /\ UNCHANGED << pc, items, buckets, out, tags, rng, calls, log,
                  heap, refs, app >>

NextSpiral == ApplySpiral

SpecSpiral == InitSpiral /\ [][NextSpiral]_vars

\* ------------------------------------------------------------------------
\* Records that differ in their identity fields
\* ------------------------------------------------------------------------
SeedLen == 2           \* longest argument array of such records

\* A record of Israel with null coordinates and the given identity fields
Unplaced(fields) ==
  [country |-> "Israel", lat |-> Null, lon |-> Null] @@ fields

SeedRecords ==
  { Unplaced([id |-> Num(0), url |-> Str(IdB)]),
    Unplaced([id |-> Str(<< >>), title |-> Str(IdC)]),
    Unplaced([id |-> Num(0)]),
    Unplaced([id |-> Str(IdA), url |-> Str(IdB)]),
    Unplaced([url |-> Str(IdB), title |-> Str(IdC)]),
    Unplaced([title |-> Str(IdC)]),
    [country |-> "Israel", lat |-> Null, lon |-> Null] }

SeedBatches == SeqsUpTo(SeedRecords, SeedLen)

CallSeed == calls = 0 /\ \E b \in SeedBatches : Call(b)

NextSeed == CallSeed \/ MapStep \/ Return

SpecSeed == Init /\ [][NextSeed]_vars

\* ------------------------------------------------------------------------
\* The nearest-zone search applied on its own
\* ------------------------------------------------------------------------
\* Zones of one degree: two side by side with a gap of one degree between
\* them, and one overlapping the first
WestZone    == [lat |-> << 0, 10000 >>, lon |-> << 0, 10000 >>]
EastZone    == [lat |-> << 0, 10000 >>, lon |-> << 20000, 30000 >>]
OverlapZone == [lat |-> << 5000, 15000 >>, lon |-> << 5000, 15000 >>]

ZoneLists ==
  { << WestZone, EastZone >>, << EastZone, WestZone >>,
    << WestZone, OverlapZone, EastZone >>, << OverlapZone, WestZone >>,
    << EastZone >> }

NearestProbes ==
  { [fn |-> "clampToBestRect", lat |-> la, lon |-> lo, rects |-> zs, done |-> FALSE] :
      la \in { -5000, 0, 7000, 10000, 12000 },
      lo \in { -5000, 7000, 15000, 25000, 31000 },
      zs \in ZoneLists }

InitNearest == Idle /\ probe \in NearestProbes

\* clampToBestRect(lat, lon, rects), and the same scan in Case C (lines
\* 165-169): the 1-based position of the zone kept in `best`, and the point
\* clamped into it
ApplyNearest ==
  /\ probe.fn = "clampToBestRect" /\ ~probe.done
  /\ probe' = [probe EXCEPT !.done = TRUE] @@
                [best |-> BestFrom(probe.lat, probe.lon, probe.rects, 1, 1, Infinity),
                 dist |-> [k \in 1..Len(probe.rects) |->
                             rectDist2(probe.lat, probe.lon, probe.rects[k])],
                 ret  |-> clampToBestRect(probe.lat, probe.lon, probe.rects)]
  /\ UNCHANGED << pc, items, buckets, out, tags, rng, calls, log,
                  heap, refs, app >>

NextNearest == ApplyNearest

SpecNearest == InitNearest /\ [][NextNearest]_vars

\* ------------------------------------------------------------------------
\* placeArticles applied to its own result
\* ------------------------------------------------------------------------
\* Records of Kenya far outside its zones, all with the same id: two on
\* either side of the equator within 0.0005 degree, one five degrees north
FarNorth == [country |-> "Kenya", lat |-> Num(4), lon |-> Num(100000), id |-> Str(IdA)]
FarSouth == [country |-> "Kenya", lat |-> Num(-4), lon |-> Num(100000), id |-> Str(IdA)]
FarAway  == [country |-> "Kenya", lat |-> Num(50000), lon |-> Num(100000), id |-> Str(IdA)]

\* Records of Israel inside a zone: one on the point of InsideOne, one
\* 0.004 degree east of it
OnSamePoint == [country |-> "Israel", lat |-> Num(315000), lon |-> Num(350000),
                id |-> Str(IdB)]
EastOfPoint == [country |-> "Israel", lat |-> Num(315000), lon |-> Num(350040),
                id |-> Str(IdC)]

TwiceRecords == { FarNorth, FarSouth, FarAway, InsideOne, OnSamePoint, EastOfPoint }

TwiceBatches == SeqsUpTo(TwiceRecords, MaxLen)

CallFirst == calls = 0 /\ \E b \in TwiceBatches : Call(b)

\* placeArticles(placed), placed being the array the first call returned
CallOnResult == calls = 1 /\ pc = "returned" /\ Call(out)

NextTwice == CallFirst \/ CallOnResult \/ MapStep \/ Return

SpecTwice == Init /\ [][NextTwice]_vars

\* ------------------------------------------------------------------------
\* hash32, the generator and the zone draw applied on their own
\* ------------------------------------------------------------------------
StrLen == 2            \* longest string hashed

\* Character codes: '#', '0', 'a', e-acute and the euro sign
CharCodes == { 35, 48, 97, 233, 8364 }

Strings == SeqsUpTo(CharCodes, StrLen) \cup { << 102, 111, 111, 98, 97, 114 >> }

\* Words a generator may yield, the extremes among them
Words ==
  { << 0, 0 >>, << 0, 1 >>, << 8191, 65535 >>, << 8192, 0 >>, << 32767, 65535 >>,
    << 32768, 0 >>, << 65535, 0 >>, << 65535, 65535 >> }

\* (Math.round in place of Math.floor)
ZoneIndexRounded(u, n) ==
  IF n > 1
  THEN ((u[1] * n + (u[2] * n) \div W16) + W16 \div 2) \div W16
  ELSE 0

\* zones.length > 1 ? Math.floor(rnd() * zones.length) : 0, rnd() being
\* u / 2^32
ZoneIndexOf(u, n) == IF n > 1 THEN ScaleWord(u, n) ELSE 0

\* The words the successive rnd() calls of pickCountryPatchPoint yield:
\* one for the zone when there are several zones, then lat, then lon
Draws(country, seedStr) ==
  Const(mulberry32(hash32(seedStr)), LAMBDA a0 :
    IF Len(PickZones(countryBounds[country])) > 1
    THEN << RndWord(a0), RndWord(RndState(a0)), RndWord(RndState(RndState(a0))) >>
    ELSE << RndWord(a0), RndWord(RndState(a0)) >>)

DrawProbes ==
  { [fn |-> "hash32", str |-> s, done |-> FALSE] : s \in Strings }
  \cup { [fn |-> "pickCountryPatchPoint", country |-> c, seedStr |-> s, done |-> FALSE] :
            c \in { "India", "Kenya", "Israel", "Nepal" }, s \in Strings \ { << >> } }
  \cup { [fn |-> "zoneIndex", word |-> u, count |-> n, done |-> FALSE] :
            u \in Words, n \in 1..8 }

InitDraw == Idle /\ probe \in DrawProbes

\* hash32(str)
ApplyHash ==
  /\ probe.fn = "hash32" /\ ~probe.done
  /\ probe' = [fn |-> "hash32", str |-> probe.str, done |-> TRUE,
                ret |-> hash32(probe.str)]
  /\ UNCHANGED << pc, items, buckets, out, tags, rng, calls, log,
                  heap, refs, app >>

\* pickCountryPatchPoint(country, seedStr)
ApplyPick ==
  /\ probe.fn = "pickCountryPatchPoint" /\ ~probe.done
  /\ probe' = [fn |-> "pickCountryPatchPoint", country |-> probe.country,
                seedStr |-> probe.seedStr, done |-> TRUE,
                ret |-> pickCountryPatchPoint(probe.country, probe.seedStr),
                draws |-> Draws(probe.country, probe.seedStr)]
  /\ UNCHANGED << pc, items, buckets, out, tags, rng, calls, log,
                  heap, refs, app >>

\* The zone draw of line 99 for a word the generator yields
ApplyZoneIndex ==
  /\ probe.fn = "zoneIndex" /\ ~probe.done
  /\ probe' = [fn |-> "zoneIndex", word |-> probe.word, count |-> probe.count,
                done |-> TRUE, ret |-> ZoneIndexOf(probe.word, probe.count)]
  /\ UNCHANGED << pc, items, buckets, out, tags, rng, calls, log,
                  heap, refs, app >>

NextDraw == ApplyHash \/ ApplyPick \/ ApplyZoneIndex

SpecDraw == InitDraw /\ [][NextDraw]_vars

\* ------------------------------------------------------------------------
\* The App component's requests (src/src/App.js)
\* ------------------------------------------------------------------------
\* Requests started from the page, the chained news requests not counted
MaxRequests == 4

Requests == 1 .. Len(app.ctl)

\* The fetch of request r has not settled and its signal is not aborted
Pending(r) == app.ctl[r].st = "pending"

\* No rejection is waiting for its handlers: the reactions to an abort
\* are microtasks, and run before the next click or network completion
Quiescent == \A r \in Requests : app.ctl[r].st # "aborted"

\* (requestRef.current dropped without a call to abort())
AbortSkipped(a) == [a EXCEPT !.requestRef = 0]

\* abortInFlight: abort() on a fetch that has settled changes nothing
abortInFlight(a) ==
  [a EXCEPT !.ctl = IF a.requestRef # 0 /\ a.ctl[a.requestRef].st = "pending"
                    THEN [@ EXCEPT ![a.requestRef].st = "aborted"]
                    ELSE @,
            !.requestRef = 0]

\* The three lines every loader begins with: abortInFlight(), a new
\* AbortController, requestRef.current = controller.  `of` is the
\* loadEvents chain that awaits the request, 0 when there is none.
NewController(a, fn, of) ==
  Const(abortInFlight(a), LAMBDA b :
    [b EXCEPT !.ctl = Append(@, [fn |-> fn, st |-> "pending",
                                 of |-> of, rank |-> 0]),
              !.requestRef = Len(b.ctl) + 1])

loadEvents(a) == [NewController(a, "events", 0) EXCEPT !.isLoading = TRUE]

\* loadNews never calls setIsLoading and has no .finally of its own
loadNews(a, of) == NewController(a, "news", of)

loadEventDetails(a) ==
  [NewController(a, "details", 0) EXCEPT !.isLoading = TRUE]

\* The .finally of loadEvents and of loadEventDetails
Finally(a, controller) ==
  [a EXCEPT !.requestRef = IF @ = controller THEN 0 ELSE @,
            !.isLoading = FALSE]

\* The controller whose .finally runs when request r settles: loadEvents
\* returns the promise of loadNews from its handler, so its own .finally
\* waits for the news request
Chain(r) == IF app.ctl[r].fn = "news" THEN app.ctl[r].of ELSE r

\* Request r settled as st, with rank requests started by then
Settled(a, r, st) ==
  [a EXCEPT !.ctl[r].st = st, !.ctl[r].rank = Len(a.ctl)]

Placement == << pc, items, buckets, out, tags, rng, calls, log, heap, refs,
                probe >>

\* script.onload: the load made once, when the globe is ready
BootLoad ==
  /\ ~app.booted
  /\ app' = [loadEvents(app) EXCEPT !.booted = TRUE]
  /\ UNCHANGED Placement

\* The Load button, disabled={isLoading}
ClickLoad ==
  /\ app.booted
  /\ ~app.isLoading
  /\ Quiescent
  /\ Len(app.ctl) < MaxRequests
  /\ app' = loadEvents(app)
  /\ UNCHANGED Placement

\* An event card of the list, which isLoading does not disable
ClickEventCard ==
  /\ app.cards
  /\ Quiescent
  /\ Len(app.ctl) < MaxRequests
  /\ app' = loadEventDetails(app)
  /\ UNCHANGED Placement

\* The /events response reaches its handler: the state is written and
\* the news request is started.  cards: the response lists some event.
EventsResponse(r, cards) ==
  /\ Quiescent
  /\ Pending(r)
  /\ app.ctl[r].fn = "events"
  /\ app' = loadNews([Settled(app, r, "fulfilled") EXCEPT
                        !.events = r, !.cards = cards,
                        !.selectedEvent = 0, !.countries = 0,
                        !.pins = r], r)
  /\ UNCHANGED Placement

\* The /news response reaches its handler, and the loadEvents chain ends
NewsResponse(r) ==
  /\ Quiescent
  /\ Pending(r)
  /\ app.ctl[r].fn = "news"
  /\ app' = Finally([Settled(app, r, "fulfilled") EXCEPT
                       !.articles = r, !.pins = r], Chain(r))
  /\ UNCHANGED Placement

\* The /event/:id response reaches its handler
DetailsResponse(r) ==
  /\ Quiescent
  /\ Pending(r)
  /\ app.ctl[r].fn = "details"
  /\ app' = Finally([Settled(app, r, "fulfilled") EXCEPT
                       !.selectedEvent = r, !.countries = r,
                       !.pins = r], Chain(r))
  /\ UNCHANGED Placement

\* The request fails without having been aborted (network error, a
\* body that is not JSON, !r.ok): .catch logs, then .finally
RequestFails(r) ==
  /\ Quiescent
  /\ Pending(r)
  /\ app' = Finally(Settled(app, r, "failed"), Chain(r))
  /\ UNCHANGED Placement

\* The fetch of an aborted request rejects with AbortError: the data
\* handler is skipped, .catch ignores the error, then .finally
AbortRejects(r) ==
  /\ app.ctl[r].st = "aborted"
  /\ app' = Finally(Settled(app, r, "rejected"), Chain(r))
  /\ UNCHANGED Placement

NextApp ==
  \/ BootLoad
  \/ ClickLoad
  \/ ClickEventCard
  \/ \E r \in Requests, cards \in BOOLEAN : EventsResponse(r, cards)
  \/ \E r \in Requests : NewsResponse(r)
  \/ \E r \in Requests : DetailsResponse(r)
  \/ \E r \in Requests : RequestFails(r)
  \/ \E r \in Requests : AbortRejects(r)

SpecApp == Init /\ [][NextApp]_vars

\* ------------------------------------------------------------------------
\* Properties
\* ------------------------------------------------------------------------
\* The record's country is an entry of the country zone table
Recognized(a) == ~NoCountry(a) /\ a.country \in DOMAIN countryBounds

\* The record's country is absent, empty or no entry of the table
Unknown(a) == ~Recognized(a)

\* Positions of the call in progress whose callback has returned
Produced == 1..Len(out)

\* The safe zones of a table entry: its inset patches
ZonesOfCountry(c) == SafeZones(countryBounds[c])

\* A produced record carries a finite point inside one of the zones
PointInZones(rec, zones) ==
  /\ "lat" \in DOMAIN rec /\ rec.lat.t = "num"
  /\ "lon" \in DOMAIN rec /\ rec.lon.t = "num"
  /\ \E k \in 1..Len(zones) :
       /\ zones[k].lat[1] <= rec.lat.v /\ rec.lat.v <= zones[k].lat[2]
       /\ zones[k].lon[1] <= rec.lon.v /\ rec.lon.v <= zones[k].lon[2]

\* lat and lon of the output are exactly those of the input (an absent
\* property stays absent)
SamePoint(a, rec) ==
  /\ Get(rec, "lat") = Get(a, "lat")
  /\ Get(rec, "lon") = Get(a, "lon")
  /\ ("lat" \in DOMAIN rec) = (IsObject(a) /\ "lat" \in DOMAIN a)
  /\ ("lon" \in DOMAIN rec) = (IsObject(a) /\ "lon" \in DOMAIN a)

\* The own properties of an array element (null and undefined have none)
Fields(a) == IF IsObject(a) THEN DOMAIN a ELSE {}

\* The bucket the pre-pass put the record at 1-based position i into
BucketOf(i) == MapGet(buckets, keyFor(items[i]))

\* C1 (Containment): every produced record whose country is a table entry
\* carries a point inside (closed ranges) at least one safe zone of that
\* country, whichever branch (synthetic, spiral, clamp) produced it.
C1_Containment ==
  \A i \in Produced :
    Recognized(items[i]) => PointInZones(out[i], ZonesOfCountry(items[i].country))

\* A returned call in which records were spread by the spiral (one of them
\* after retries near a zone edge) and one was given a synthetic point
C1_Witness ==
  /\ pc = "returned"
  /\ \E i, j \in Produced :
       /\ tags[i] = "C" /\ items[i] = NearEdge
       /\ tags[j] = "A" /\ Recognized(items[j])

\* C2 (Unknown-country pass-through): a record whose country is absent,
\* empty or not a table entry is copied: the callback returns for it and
\* the copy has exactly the input's lat and lon.
C2_UnknownPassThrough ==
  \A i \in 1..Len(items) :
    (pc \in {"map", "returned", "thrown"} /\ Unknown(items[i])) =>
      /\ ~(pc = "thrown" /\ i = Len(out) + 1)
      /\ i \in Produced => SamePoint(items[i], out[i])

\* C3 (Length and order): every call on a non-empty array returns an
\* array of the same length whose element i is derived from input
\* element i.
DerivedFrom(a, rec) == \A f \in Fields(a) \ {"lat", "lon"} : f \in DOMAIN rec /\ rec[f] = a[f]

C3_LengthAndOrder ==
  (pc \in {"returned", "thrown"} /\ Len(items) > 0) =>
    /\ pc = "returned"
    /\ Len(out) = Len(items)
    /\ \A i \in 1..Len(items) : DerivedFrom(items[i], out[i])

\* What does hold of the code: a call that returns is a map
C3_ReturnedIsMap ==
  (pc = "returned" /\ Len(items) > 0) =>
    /\ Len(out) = Len(items)
    /\ \A i \in 1..Len(items) : DerivedFrom(items[i], out[i])

\* C4 (Field pass-through): every produced record has, apart from lat and
\* lon, exactly the properties of its input record with the same values.
C4_FieldPassThrough ==
  \A i \in Produced :
    /\ DOMAIN out[i] \ {"lat", "lon"} = Fields(items[i]) \ {"lat", "lon"}
    /\ \A f \in Fields(items[i]) \ {"lat", "lon"} : out[i][f] = items[i][f]

\* A record with an id and a title was spread by the spiral, and a record
\* with a url and no lat was given a synthetic point
C4_Witness ==
  \E i, j \in Produced :
    /\ tags[i] = "C" /\ {"id", "title"} \subseteq DOMAIN out[i]
    /\ tags[j] = "A" /\ "lat" \notin DOMAIN items[j] /\ "url" \in DOMAIN out[j]

\* C5 (Determinism): any two completed calls on the same argument have
\* the same outcome, whatever calls were made before or between them.
C5_Determinism ==
  \A e1, e2 \in log : e1[1] = e2[1] => e1[2] = e2[2]

\* The same argument was passed twice, with a synthetic point in the
\* result, and the second call has returned
C5_Witness ==
  /\ calls = 2
  /\ pc = "returned"
  /\ Cardinality(log) = 1
  /\ \E i \in Produced : tags[i] = "A"

\* C6 (No exception path): no call raises, whatever the argument array.
C6_NoException == pc # "thrown"

\* C7 (Seed stability under reordering), as stated: when a call's argument
\* is another call's argument with one record moved to a different
\* position, and that record has an identity field and is given a
\* synthetic point, it is given the same point in both calls.
Move(s, i, j) ==
  LET rest == [k \in 1..(Len(s) - 1) |-> IF k < i THEN s[k] ELSE s[k + 1]]
  IN  [k \in 1..Len(s) |->
         IF k < j THEN rest[k] ELSE IF k = j THEN s[i] ELSE rest[k - 1]]

HasIdentity(a) ==
  Truthy(Get(a, "id")) \/ Truthy(Get(a, "url")) \/ Truthy(Get(a, "title"))

\* The number of records of the same bucket before position i
LocalIndexIn(s, i) ==
  Cardinality({ k \in 1..(i - 1) : ~NoCountry(s[k]) /\ keyFor(s[k]) = keyFor(s[i]) })

\* e2 is e1 with the record at position i, which occurs once in the
\* argument, moved to position j
MovedCall(e1, e2, i, j) ==
  /\ e1[2].ok /\ e2[2].ok
  /\ i \in 1..Len(e1[1]) /\ j \in 1..Len(e1[1]) /\ i # j
  /\ \A k \in 1..Len(e1[1]) : k # i => e1[1][k] # e1[1][i]
  /\ e2[1] = Move(e1[1], i, j)
  /\ HasIdentity(e1[1][i])
  /\ e1[2].tags[i] = "A"

SameOutPoint(r1, r2) == r1.lat = r2.lat /\ r1.lon = r2.lon

NotFinite(v) == v.t # "num"

MissingCoords(a) ==
  \/ NotFinite(Get(a, "lat"))
  \/ NotFinite(Get(a, "lon"))
  \/ (Get(a, "lat").v = 0 /\ Get(a, "lon").v = 0)

C8_MissingNeverSurface ==
  \A i \in Produced :
    (Recognized(items[i]) /\ MissingCoords(items[i])) =>
      /\ tags[i] = "A"
      /\ PointInZones(out[i], ZonesOfCountry(items[i].country))

\* A null latitude, a (0,0) point and an absent latitude were all placed
C8_Witness ==
  /\ pc = "returned"
  /\ \E i, j, k \in Produced :
       /\ Recognized(items[i]) /\ Get(items[i], "lat") = Null
       /\ Recognized(items[j]) /\ Get(items[j], "lat") = Num(0)
       /\ Recognized(items[k]) /\ "lat" \notin DOMAIN items[k]

\* C9 (Heavy-duplicate rule): a record of a table country whose duplicate
\* bucket (the records of the same country whose lat and lon are equal
\* after rounding to 3 decimals) has 3 or more members gets the synthetic
\* point seeded by "<identity seed>#<index within bucket>", inside a zone or
\* not; in a bucket of 1 or 2 a finite, non-(0,0) point inside a safe zone
\* never gets a synthetic point.
Rounded3(v) == IF v.t = "num" THEN Num(RoundDiv(v.v, 10)) ELSE v

SameRounded(a, b) ==
  /\ Rounded3(Get(a, "lat")) = Rounded3(Get(b, "lat"))
  /\ Rounded3(Get(a, "lon")) = Rounded3(Get(b, "lon"))

DuplicateBucket(i) ==
  { j \in 1..Len(items) :
      /\ ~NoCountry(items[j])
      /\ items[j].country = items[i].country
      /\ SameRounded(items[i], items[j]) }

SyntheticAt(i, index) ==
  LET pt == pickCountryPatchPoint(items[i].country,
                                  SeedKey(SeedOf(items[i], i - 1), index))
  IN  [lat |-> Num(pt.lat), lon |-> Num(pt.lon)]

InsideSafeZone(a) ==
  /\ ~MissingCoords(a)
  /\ insideAny(a.lat.v, a.lon.v, ZonesOfCountry(a.country))

C9_HeavyDuplicateRule ==
  \A i \in Produced :
    Recognized(items[i]) =>
      LET members == DuplicateBucket(i)
          index   == Cardinality({ j \in members : j < i })
      IN  /\ Cardinality(members) >= 3 =>
               /\ tags[i] = "A"
               /\ SameOutPoint(out[i], SyntheticAt(i, index))
          /\ (Cardinality(members) \in {1, 2} /\ InsideSafeZone(items[i])) =>
               tags[i] \in {"C", "D"}

\* The rule as the code applies it, over the buckets keyed by keyFor: a
\* bucket of 3 or more entries gives the synthetic point, a smaller one
\* with a point inside a safe zone never does.
C9_RuleOverKeyedBuckets ==
  \A i \in Produced :
    Recognized(items[i]) =>
      /\ Len(BucketOf(i)) >= 3 =>
           /\ tags[i] = "A"
           /\ SameOutPoint(out[i], SyntheticAt(i, IndexOf(BucketOf(i), i - 1)))
      /\ (Len(BucketOf(i)) \in {1, 2} /\ InsideSafeZone(items[i])) =>
           tags[i] \in {"C", "D"}

\* Three records inside a safe zone share a keyed bucket and were all
\* given synthetic points
C9_KeyedBucketOfThree ==
  /\ pc = "returned"
  /\ Len(out) = 3
  /\ \A i \in Produced :
       /\ Recognized(items[i]) /\ InsideSafeZone(items[i])
       /\ Len(BucketOf(i)) = 3
       /\ tags[i] = "A"

\* C10 (Case B): a record of a table country with patches whose finite
\* point is inside the country's bounds rectangle but outside every inset
\* patch, in a bucket below the heavy threshold, is resolved by clamping
\* its own point to the nearest zone.
InGapOfCountry(a) ==
  /\ Recognized(a)
  /\ ~MissingCoords(a)
  /\ HasPatches(countryBounds[a.country])
  /\ insideRect(a.lat.v, a.lon.v, countryBounds[a.country])
  /\ ~insideAny(a.lat.v, a.lon.v, ZonesOfCountry(a.country))

C10_CaseBClamps ==
  \A i \in Produced :
    (InGapOfCountry(items[i]) /\ Len(BucketOf(i)) < 3) =>
      LET pt == clampToBestRect(items[i].lat.v, items[i].lon.v,
                                ZonesOfCountry(items[i].country))
      IN  /\ tags[i] = "B"
          /\ SameOutPoint(out[i], [lat |-> Num(pt.lat), lon |-> Num(pt.lon)])

\* C11 (Case D is the identity): a record of a table country whose point is
\* finite, not (0,0), inside at least one safe zone and alone in its
\* duplicate bucket (no other record of the batch has the same country and
\* the same lat and lon after rounding to 3 decimals) keeps exactly its
\* input lat and lon.
C11_CaseDIdentity ==
  \A i \in Produced :
    ( /\ Recognized(items[i])
      /\ InsideSafeZone(items[i])
      /\ Cardinality(DuplicateBucket(i)) = 1 ) =>
      SamePoint(items[i], out[i])

\* The identity of the nearest-zone clamp over the buckets keyed by keyFor:
\* a record alone in its keyed bucket with a point inside a safe zone takes
\* the last branch and keeps its point, also where zones overlap.
C11_IdentityOverKeyedBuckets ==
  \A i \in Produced :
    ( /\ Recognized(items[i])
      /\ InsideSafeZone(items[i])
      /\ Len(BucketOf(i)) = 1 ) =>
      /\ tags[i] = "D"
      /\ SamePoint(items[i], out[i])

\* A record inside two overlapping zones was kept
C11_KeptInOverlap ==
  \E i \in Produced : items[i] = InOverlap /\ tags[i] = "D"

\* C12 (Modest-duplicate spread): a batch of exactly 2 records with the same
\* table country and the same point inside a safe zone is resolved by the
\* spiral for both, with bucket-local indices 0 and 1; the two output points
\* differ and both lie inside the zone nearest the shared point.
TwoAtOnePoint ==
  /\ pc = "returned"
  /\ Len(items) = 2
  /\ Recognized(items[1])
  /\ InsideSafeZone(items[1])
  /\ ~NoCountry(items[2])
  /\ items[2].country = items[1].country
  /\ Get(items[2], "lat") = items[1].lat
  /\ Get(items[2], "lon") = items[1].lon

SpiralPoint(a, n) ==
  LET best == BestRect(a.lat.v, a.lon.v, ZonesOfCountry(a.country))
      pt   == spiralWithinRect(a.lat.v, a.lon.v, best, n)
  IN  [lat |-> Num(pt.lat), lon |-> Num(pt.lon)]

C12_ModestDuplicateSpread ==
  TwoAtOnePoint =>
    LET best == BestRect(items[1].lat.v, items[1].lon.v,
                         ZonesOfCountry(items[1].country))
    IN  /\ tags = << "C", "C" >>
        /\ SameOutPoint(out[1], SpiralPoint(items[1], 0))
        /\ SameOutPoint(out[2], SpiralPoint(items[2], 1))
        /\ ~SameOutPoint(out[1], out[2])
        /\ PointInZones(out[1], << best >>)
        /\ PointInZones(out[2], << best >>)

\* Two records at one point inside two overlapping zones were spread
C12_Witness ==
  /\ TwoAtOnePoint
  /\ items[1] = InOverlap
  /\ tags = << "C", "C" >>

\* C13 (Dedup separation): in a batch of 4 records of India with one and
\* the same (lat, lon) and pairwise distinct ids, all 4 records take the
\* synthetic branch, the 4 output points are pairwise distinct, and each
\* lies inside one of India's safe zones.
FourOfIndia ==
  /\ pc = "returned"
  /\ Len(items) = 4
  /\ \A i \in 1..4 :
       /\ items[i].country = "India"
       /\ items[i].lat = items[1].lat
       /\ items[i].lon = items[1].lon
  /\ \A i, j \in 1..4 : i # j => items[i].id # items[j].id

C13_DedupSeparation ==
  FourOfIndia =>
    /\ \A i \in 1..4 :
         /\ tags[i] = "A"
         /\ PointInZones(out[i], ZonesOfCountry("India"))
    /\ \A i, j \in 1..4 : i # j => ~SameOutPoint(out[i], out[j])

\* What holds for the four records: each takes the synthetic branch and
\* lands inside a safe zone of India, and two of them get one and the same
\* point exactly when their seed keys have the same hash32
C13_SeparationUpToHash ==
  FourOfIndia =>
    /\ \A i \in 1..4 :
         /\ tags[i] = "A"
         /\ PointInZones(out[i], ZonesOfCountry("India"))
    /\ \A i, j \in 1..4 :
         SameOutPoint(out[i], out[j]) <=>
           hash32(SeedKey(items[i].id, i - 1)) = hash32(SeedKey(items[j].id, j - 1))

\* Four records of India with distinct ids were all given synthetic points
C13_FourPlaced ==
  FourOfIndia /\ \A i \in 1..4 : tags[i] = "A"

\* C14 (Malformed input): a call of placeArticles whose argument is not an
\* array (undefined and null included) or is an empty array does not raise
\* and returns either the argument itself or an empty array; it groups no
\* record into buckets and places none.
GuardReturn == calls' = calls + 1 /\ pc' # "map"

C14_MalformedInput ==
  [][ GuardReturn =>
        /\ pc' = "returned"
        /\ IF probe'.fn = "placeArticles"
           THEN /\ ~probe'.raised
                /\ probe'.ret = probe'.arg \/ probe'.ret = Array(<< >>)
           ELSE /\ items' = << >>
                /\ << items', Outcome(TRUE, items', << >>) >> \in log'
        /\ buckets' = buckets
        /\ rng' = rng
        /\ out' = << >>
        /\ tags' = << >>
        /\ refs' = << >> ]_vars

\* undefined was passed after a call that had grouped records, and an
\* empty array came back
C14_Witness ==
  /\ probe.fn = "placeArticles"
  /\ probe.arg = Undef
  /\ probe.ret = Array(<< >>)
  /\ pc = "returned"
  /\ buckets # EmptyMap

\* C15 (Inset invariant): for every rectangle with min <= max on both axes
\* and every inset percentage, the inset rectangle has min <= max on both
\* axes; where insetting by the percentage would invert a range, the
\* result is the un-inset rectangle; and every safe zone derived from the
\* country table is a well-formed rectangle.
WellFormed(rect) == rect.lat[1] <= rect.lat[2] /\ rect.lon[1] <= rect.lon[2]

PadOf(range, pct) == ((range[2] - range[1]) * pct) \div 100

WouldInvert(rect, pct) ==
  \/ rect.lat[1] + PadOf(rect.lat, pct) > rect.lat[2] - PadOf(rect.lat, pct)
  \/ rect.lon[1] + PadOf(rect.lon, pct) > rect.lon[2] - PadOf(rect.lon, pct)

InsetApplied == probe.fn = "insetRect" /\ probe.done
ZonesApplied == probe.fn = "SafeZones" /\ probe.done

C15_InsetInvariant ==
  /\ InsetApplied =>
       /\ WellFormed(probe.ret)
       /\ WouldInvert(probe.rect, probe.pct) => probe.ret = probe.rect
  /\ ZonesApplied =>
       \A k \in 1..Len(probe.ret) : WellFormed(probe.ret[k])

\* What holds of insetRect: the result is well-formed exactly when the
\* padding does not invert a range, and a rectangle is never left un-inset
\* because of an inversion
C15_InsetInvertsPastHalf ==
  InsetApplied =>
    /\ WellFormed(probe.ret) <=> ~WouldInvert(probe.rect, probe.pct)
    /\ WouldInvert(probe.rect, probe.pct) => probe.ret # probe.rect

\* Every zone list derived from the table is non-empty and well-formed
C15_TableZonesWellFormed ==
  ZonesApplied =>
    /\ Len(probe.ret) > 0
    /\ \A k \in 1..Len(probe.ret) : WellFormed(probe.ret[k])

\* A rectangle of positive span was inset by more than half
C15_InvertedReached ==
  InsetApplied /\ probe.pct > 50 /\ ~WellFormed(probe.ret)

\* The zone list of India was derived
C15_IndiaZonesReached ==
  ZonesApplied /\ probe.country = "India" /\ Len(probe.ret) = 8

\* C16 (Purity): during and after a call of placeArticles on a non-empty
\* array the argument array and every record in it are as the caller
\* passed them; every output element is a new object, none of them an input
\* record and no two the same; the buckets are built from the argument of
\* the call alone and every output element is what the callback gives for
\* its record, its position and those buckets, whatever calls came before.
InCall == pc \in { "map", "returned", "thrown" } /\ Len(items) > 0

C16_Purity ==
  InCall =>
    /\ heap = items
    /\ Len(refs) = Len(out)
    /\ \A k \in 1..Len(refs) :
         /\ refs[k] \notin 1..Len(items)
         /\ \A j \in 1..Len(refs) : j # k => refs[j] # refs[k]
    /\ buckets = GroupFrom(NewBuckets, items, 1)
    /\ \A k \in Produced :
         out[k] = Callback(items[k], k - 1, GroupFrom(NewBuckets, items, 1), Word(0)).rec

\* A second call, on records the first call was not given, has returned a
\* record with a synthetic point, and its argument still holds the record
\* as passed
C16_Witness ==
  /\ calls = 2
  /\ pc = "returned"
  /\ \E e \in log :
       /\ Len(e[1]) > 0
       /\ \A i \in 1..Len(e[1]), j \in 1..Len(items) : e[1][i] # items[j]
  /\ \E i \in Produced :
       /\ tags[i] = "A"
       /\ ~SamePoint(items[i], out[i])
       /\ heap[i] = items[i]

\* ------------------------------------------------------------------------
\* The candidates of the spiral search, written out
\* ------------------------------------------------------------------------
\* Radius of candidate k (k = 0 is the first candidate), in millimetres
RECURSIVE RadiusAt(_, _)
RadiusAt(n, k) ==
  IF k = 0 THEN 380000 + n * 240000 ELSE (RadiusAt(n, k - 1) * 62) \div 100

\* Angle of candidate k, in micro-radians
ThetaAt(n, k) == n * GOLDEN_ANGLE + k * ((GOLDEN_ANGLE * 115) \div 100)

\* The center displaced by radius r at angle theta
Displaced(centerLat, centerLon, r, theta) ==
  LET dx == RoundDiv(RoundDiv(MathCos(theta), 100) * RoundDiv(r, 100), 100)
      dy == RoundDiv(RoundDiv(MathSin(theta), 100) * RoundDiv(r, 100), 100)
      d  == metersToDegrees(centerLat, dx, dy)
  IN  [lat |-> centerLat + d.dLat, lon |-> centerLon + d.dLon]

CandidateAt(centerLat, centerLon, n, k) ==
  Displaced(centerLat, centerLon, RadiusAt(n, k), ThetaAt(n, k))

SpiralApplied == probe.fn = "spiralWithinRect" /\ probe.done

Center == [lat |-> probe.centerLat, lon |-> probe.centerLon]

CandidateOf(k) == CandidateAt(probe.centerLat, probe.centerLon, probe.n, k)

CandidateInside(k) == insideRect(CandidateOf(k).lat, CandidateOf(k).lon, probe.rect)

\* C17 (Spiral at index 0), as stated: for index 0 the spiral returns the
\* center itself, and for an index n >= 1 whose first candidate is inside
\* the zone it returns the center displaced by 380 m + n * 240 m at angle
\* n * goldenAngle.
C17_SpiralAtIndexZero ==
  SpiralApplied =>
    /\ (probe.n = 0 /\ insideRect(Center.lat, Center.lon, probe.rect)) =>
         probe.ret = Center
    /\ (probe.n >= 1 /\ CandidateInside(0)) => probe.ret = CandidateOf(0)

\* C17 (Spiral at index 0), with index 0 displaced like every other index:
\* for every index n >= 0 whose first candidate is inside the zone the
\* spiral returns the center displaced by 380 m + n * 240 m at angle
\* n * goldenAngle; for index 0 that is a point due east of the center, at
\* the same latitude, and not the center.
C17_SpiralEveryIndexDisplaced ==
  (SpiralApplied /\ CandidateInside(0)) =>
    /\ probe.ret = Displaced(probe.centerLat, probe.centerLon,
                             380000 + probe.n * 240000, probe.n * GOLDEN_ANGLE)
    /\ probe.n = 0 => (probe.ret.lat = Center.lat /\ probe.ret.lon > Center.lon)

\* Index 0 was applied at a center inside a wide zone and a point other
\* than the center came back
C17_Witness ==
  /\ SpiralApplied
  /\ probe.n = 0
  /\ probe.rect = WideZone
  /\ insideRect(Center.lat, Center.lon, probe.rect)
  /\ probe.ret # Center

\* C18 (Spiral result is resolved and inside): for every center, every
\* well-formed zone and every index, spiralWithinRect returns a point
\* inside the zone: a candidate that is inside the zone and has no earlier
\* candidate inside, or, when every candidate tried is outside, the center
\* clamped into the zone.
C18_SpiralResolvedInside ==
  (SpiralApplied /\ WellFormed(probe.rect)) =>
    /\ DOMAIN probe.ret = { "lat", "lon" }
    /\ insideRect(probe.ret.lat, probe.ret.lon, probe.rect)
    /\ \/ \E k \in 0..(SPIRAL_TRIES - 1) :
            /\ CandidateInside(k)
            /\ \A j \in 0..(k - 1) : ~CandidateInside(j)
            /\ probe.ret = CandidateOf(k)
       \/ /\ \A k \in 0..(SPIRAL_TRIES - 1) : ~CandidateInside(k)
          /\ probe.ret = clampToRect(Center.lat, Center.lon, probe.rect)
          /\ probe.ret.lat = Max(probe.rect.lat[1], Min(probe.rect.lat[2], Center.lat))
          /\ probe.ret.lon = Max(probe.rect.lon[1], Min(probe.rect.lon[2], Center.lon))

\* Every candidate was outside a zone that does not hold the center, and
\* the center came back clamped onto the border of the zone
C18_Witness ==
  /\ SpiralApplied
  /\ probe.rect = FarZone
  /\ ~insideRect(Center.lat, Center.lon, probe.rect)
  /\ \A k \in 0..(SPIRAL_TRIES - 1) : ~CandidateInside(k)
  /\ probe.ret = [lat |-> 110000, lon |-> 110000]

\* The result of a search that may try the first candidate and then up to
\* `retries` more: the earliest candidate inside the zone, else the clamped
\* center
SearchResult(retries) ==
  LET inside == { k \in 0..retries : CandidateInside(k) }
  IN  IF inside = {} THEN clampToRect(Center.lat, Center.lon, probe.rect)
      ELSE CandidateOf(CHOOSE k \in inside : \A j \in inside : k <= j)

SpiralPending == probe.fn = "spiralWithinRect" /\ ~probe.done

\* C19 (Spiral retry budget), as stated: the search terminates; after the
\* first candidate it retries up to 12 times, each retry with the radius
\* times 0.62 and the angle plus 1.15 * goldenAngle, returns the first
\* candidate inside the zone, and returns the clamped center only when the
\* first candidate and all 12 retries are outside.
C19_RetryBudget ==
  /\ SpiralPending => ENABLED ApplySpiral
  /\ SpiralApplied => probe.ret = SearchResult(12)

\* C19 (Spiral retry budget), with 12 candidates in all: the search
\* terminates; after the first candidate it retries up to 11 times, each
\* retry with the radius times 0.62 and the angle plus 1.15 * goldenAngle,
\* returns the first candidate inside the zone, and returns the clamped
\* center when the first candidate and all 11 retries are outside.
C19_RetryBudgetOfEleven ==
  /\ SpiralPending => ENABLED ApplySpiral
  /\ SpiralApplied => probe.ret = SearchResult(11)

\* The first candidate and ten retries were outside the zone and the
\* eleventh retry found a point inside it
C19_FoundOnLastRetry ==
  /\ SpiralApplied
  /\ \A k \in 0..10 : ~CandidateInside(k)
  /\ CandidateInside(11)
  /\ probe.ret = CandidateOf(11)

\* The point pickCountryPatchPoint gives record i for a seed and the
\* record's index in its bucket
PointForSeed(i, seed) ==
  LET pt == pickCountryPatchPoint(items[i].country,
                                  SeedKey(seed, LocalIndexIn(items, i)))
  IN  [lat |-> Num(pt.lat), lon |-> Num(pt.lon)]

\* The first of id, url, title the record has, else its position
FirstPresent(a, idx) ==
  IF "id" \in DOMAIN a THEN a.id
  ELSE IF "url" \in DOMAIN a THEN a.url
  ELSE IF "title" \in DOMAIN a THEN a.title
  ELSE Str(Digits(idx))

\* The first of id, url, title that is neither 0 nor the empty string,
\* else the position
FirstTruthy(a, idx) ==
  IF "id" \in DOMAIN a /\ a.id \notin { Num(0), Str(<< >>) } THEN a.id
  ELSE IF "url" \in DOMAIN a /\ a.url \notin { Num(0), Str(<< >>) } THEN a.url
  ELSE IF "title" \in DOMAIN a /\ a.title \notin { Num(0), Str(<< >>) } THEN a.title
  ELSE Str(Digits(idx))

\* C20 (Identity seed priority): a record given a synthetic point is seeded
\* with its id when it has an id, whatever the value (0 and the empty
\* string included), else with its url when it has one, else with its title
\* when it has one, and with its position in the batch only when it has
\* none of the three.
C20_SeedPriority ==
  \A i \in Produced :
    tags[i] = "A" => SameOutPoint(out[i], PointForSeed(i, FirstPresent(items[i], i - 1)))

\* What holds: the seed is the first of id, url, title that is neither 0
\* nor the empty string, and the position when there is none
C20_SeedPriorityOverTruthy ==
  \A i \in Produced :
    tags[i] = "A" => SameOutPoint(out[i], PointForSeed(i, FirstTruthy(items[i], i - 1)))

\* A record with id 0 and a url was given a synthetic point
C20_FalsyIdPlaced ==
  \E i \in Produced :
    /\ tags[i] = "A"
    /\ items[i] = Unplaced([id |-> Num(0), url |-> Str(IdB)])

\* C21 (One safe-zone set per country): for every table entry the zone list
\* placeArticles judges containment against and the zone list
\* pickCountryPatchPoint draws from are the same list: the patches in table
\* order when the patch list is non-empty, otherwise the bounds rectangle
\* alone, each inset by the patch's own insetPct if it has one, else the
\* country's, else 0.04.
BothZonesApplied == probe.fn = "zones" /\ probe.done

OwnOrCountryPct(p, def) ==
  IF "insetPct" \in DOMAIN p THEN p.insetPct
  ELSE IF "insetPct" \in DOMAIN def THEN def.insetPct
  ELSE 4

Shrunk(p, pct) ==
  [lat |-> << p.lat[1] + ((p.lat[2] - p.lat[1]) * pct) \div 100,
              p.lat[2] - ((p.lat[2] - p.lat[1]) * pct) \div 100 >>,
   lon |-> << p.lon[1] + ((p.lon[2] - p.lon[1]) * pct) \div 100,
              p.lon[2] - ((p.lon[2] - p.lon[1]) * pct) \div 100 >>]

ZoneListOf(def) ==
  IF "patches" \in DOMAIN def /\ def.patches # << >>
  THEN [i \in 1..Len(def.patches) |->
          Shrunk(def.patches[i], OwnOrCountryPct(def.patches[i], def))]
  ELSE << Shrunk(def, OwnOrCountryPct(def, def)) >>

C21_OneZoneSet ==
  BothZonesApplied =>
    /\ probe.ret = probe.pick
    /\ probe.ret = ZoneListOf(probe.def)

\* Both zone lists of India, eight patches inset by the country's 0.04,
\* were built
C21_Witness ==
  /\ BothZonesApplied
  /\ probe.def = countryBounds["India"]
  /\ Len(probe.pick) = 8

\* C22 (Nearest-zone selection): for every point and non-empty zone list
\* the zone chosen for clamping has the minimum squared rectangle distance
\* over all zones, that distance being 0 exactly when the point is inside
\* the rectangle; among zones of equal minimum distance the earliest in the
\* list is chosen; the point returned is the point clamped into that zone.
NearestApplied == probe.fn = "clampToBestRect" /\ probe.done

\* Distance from x to the range [lo, hi]
Outside(x, range) ==
  IF x < range[1] THEN range[1] - x ELSE IF x > range[2] THEN x - range[2] ELSE 0

\* Squared distance from the probed point to zone k, as a plain integer
SquaredDistance(k) ==
  Outside(probe.lat, probe.rects[k].lat) * Outside(probe.lat, probe.rects[k].lat)
    + Outside(probe.lon, probe.rects[k].lon) * Outside(probe.lon, probe.rects[k].lon)

C22_NearestZone ==
  NearestApplied =>
    LET n == Len(probe.rects) IN
    /\ probe.best \in 1..n
    /\ \A k \in 1..n :
         /\ probe.dist[k] = << SquaredDistance(k) \div 1048576, SquaredDistance(k) % 1048576 >>
         /\ (SquaredDistance(k) = 0) <=> insideRect(probe.lat, probe.lon, probe.rects[k])
         /\ SquaredDistance(probe.best) <= SquaredDistance(k)
         /\ SquaredDistance(k) = SquaredDistance(probe.best) => probe.best <= k
    /\ probe.ret = [lat |-> Max(probe.rects[probe.best].lat[1],
                                 Min(probe.rects[probe.best].lat[2], probe.lat)),
                     lon |-> Max(probe.rects[probe.best].lon[1],
                                 Min(probe.rects[probe.best].lon[2], probe.lon))]

\* A point midway between two zones, at the same distance from both and
\* inside neither, went to the one listed first
C22_Witness ==
  /\ NearestApplied
  /\ probe.rects = << EastZone, WestZone >>
  /\ probe.lat = 7000 /\ probe.lon = 15000
  /\ probe.best = 1
  /\ probe.ret = [lat |-> 7000, lon |-> 20000]

\* The seed string `${seed}#${localIndex}` the callback builds for record i
SeedStringOf(i) ==
  SeedKey(SeedOf(items[i], i - 1), IndexOf(BucketOf(i), i - 1))

\* Records i and j both took the synthetic branch, for which the seed
\* string is built
BothSeeded(i, j) ==
  /\ i # j
  /\ Recognized(items[i]) /\ Recognized(items[j])
  /\ tags[i] = "A" /\ tags[j] = "A"

\* C23 (Distinct seeds inside a bucket): any two distinct records of a
\* batch that share a duplicate bucket (same country, same lat and lon
\* after rounding to 3 decimals) are given different seed strings
\* "<identity seed>#<index within bucket>", even when their id, url and
\* title are equal.
C23_DistinctSeedsInBucket ==
  \A i, j \in Produced :
    (BothSeeded(i, j) /\ j \in DuplicateBucket(i)) =>
      SeedStringOf(i) # SeedStringOf(j)

\* Over the buckets as keyFor keys them, the seed strings of two records
\* of one bucket differ, because their indices within the bucket differ
C23_DistinctSeedsInKeyedBucket ==
  \A i, j \in Produced :
    (BothSeeded(i, j) /\ keyFor(items[i]) = keyFor(items[j])) =>
      /\ IndexOf(BucketOf(i), i - 1) # IndexOf(BucketOf(j), j - 1)
      /\ SeedStringOf(i) # SeedStringOf(j)

\* Three records with one id in one keyed bucket were given synthetic
\* points
C23_KeyedBucketSeeded ==
  /\ pc = "returned"
  /\ items = << FarAway, FarAway, FarAway >>
  /\ tags = << "A", "A", "A" >>

\* C27 (Batch-wide seed uniqueness): within one batch, any two distinct
\* records of the same country that both take the synthetic branch are
\* given different seed strings, and so different synthetic points, also
\* when they are in different duplicate buckets and have the same id, url
\* or title.
C27_BatchWideSeedUniqueness ==
  \A i, j \in Produced :
    (BothSeeded(i, j) /\ items[i].country = items[j].country) =>
      /\ SeedStringOf(i) # SeedStringOf(j)
      /\ ~SameOutPoint(out[i], out[j])

\* What holds: two seeded records of one country get the same seed string
\* exactly when their identity seeds are equal and their indices within
\* their own keyed buckets are equal, and then they get the same point
C27_SeedsEqualAcrossBuckets ==
  \A i, j \in Produced :
    (BothSeeded(i, j) /\ items[i].country = items[j].country) =>
      /\ (SeedStringOf(i) = SeedStringOf(j)) <=>
           /\ SeedOf(items[i], i - 1) = SeedOf(items[j], j - 1)
           /\ IndexOf(BucketOf(i), i - 1) = IndexOf(BucketOf(j), j - 1)
      /\ SeedStringOf(i) = SeedStringOf(j) => SameOutPoint(out[i], out[j])

\* Two records of Kenya with one id, five degrees apart, were both given
\* synthetic points
C27_TwoBucketsSeeded ==
  /\ pc = "returned"
  /\ items = << FarNorth, FarAway >>
  /\ tags = << "A", "A" >>

\* C28 (Idempotence of placement): for every batch x,
\* placeArticles(placeArticles(x)) has the coordinates of placeArticles(x):
\* the second call moves no point.
SecondReturned == calls = 2 /\ pc = "returned"

C28_Idempotence ==
  SecondReturned => \A i \in 1..Len(items) : SamePoint(items[i], out[i])

\* What holds of the second call: a record alone in its keyed bucket of the
\* placed array is not moved
C28_AloneStaysPut ==
  SecondReturned =>
    \A i \in 1..Len(items) :
      (Recognized(items[i]) => Len(BucketOf(i)) = 1) => SamePoint(items[i], out[i])

\* The second call has returned an array of three placed records
C28_SecondPassDone ==
  /\ SecondReturned
  /\ Len(out) = 3
  /\ \A i \in 1..3 : Recognized(items[i]) /\ Len(BucketOf(i)) = 1

\* The buckets of the call in progress or just finished
Bucketed == pc \in { "map", "returned", "thrown" } /\ Len(items) > 0

\* The keys whose bucket holds the 0-based position idx
KeysHolding(idx) ==
  { k \in DOMAIN buckets : \E n \in 1..Len(buckets[k]) : buckets[k][n] = idx }

\* The 1-based positions a bucket holds
MembersOf(bucket) == { bucket[n] + 1 : n \in 1..Len(bucket) }

\* C24 (Duplicate bucketing): a record without a country is in no bucket;
\* a record of a table country is in exactly one bucket, whose members are
\* the records of the batch with the same country and the same lat and lon
\* after rounding to 3 decimals; its index within the bucket is the number
\* of earlier records of the batch in that bucket, so the indices of a
\* bucket are 0..size-1 in batch order.
C24_DuplicateBucketing ==
  Bucketed =>
    \A i \in 1..Len(items) :
      /\ NoCountry(items[i]) => KeysHolding(i - 1) = {}
      /\ Recognized(items[i]) =>
           /\ Cardinality(KeysHolding(i - 1)) = 1
           /\ MembersOf(BucketOf(i)) = DuplicateBucket(i)
           /\ IndexOf(BucketOf(i), i - 1) = Cardinality({ j \in DuplicateBucket(i) : j < i })
           /\ IndexOf(BucketOf(i), i - 1) \in 0..(Len(BucketOf(i)) - 1)

\* The bucketing over the keys keyFor builds, the text of
\* Number(lat).toFixed(3) and Number(lon).toFixed(3): a record without a
\* country is in no bucket, a record with one is in exactly the bucket of
\* its key together with the records of equal key, in batch order
C24_KeyedBucketing ==
  Bucketed =>
    /\ buckets = GroupFrom(NewBuckets, items, 1)
    /\ \A i \in 1..Len(items) :
         /\ NoCountry(items[i]) => KeysHolding(i - 1) = {}
         /\ ~NoCountry(items[i]) =>
              /\ KeysHolding(i - 1) = { keyFor(items[i]) }
              /\ MembersOf(BucketOf(i)) =
                   { j \in 1..Len(items) :
                       ~NoCountry(items[j]) /\ keyFor(items[j]) = keyFor(items[i]) }
              /\ IndexOf(BucketOf(i), i - 1) = LocalIndexIn(items, i)
              /\ \A n \in 1..(Len(BucketOf(i)) - 1) :
                   BucketOf(i)[n] < BucketOf(i)[n + 1]

\* Records on either side of the equator, equal after rounding, were put
\* in two buckets, and a record without a country in none
C24_SplitAtZero ==
  /\ Bucketed
  /\ items = << NorthOfEquator, Stateless, SouthOfEquator >>
  /\ Len(BucketOf(1)) = 1 /\ Len(BucketOf(3)) = 1

\* A word is an unsigned 32-bit integer: as the number u / 2^32 it lies in
\* [0, 1)
IsWord(u) == u[1] \in 0..65535 /\ u[2] \in 0..65535

\* floor((u / 2^32) * n) for a small count n
FloorOfProduct(u, n) == (u[1] * n + (u[2] * n) \div 65536) \div 65536

PickApplied == probe.fn = "pickCountryPatchPoint" /\ probe.done
ZoneIndexApplied == probe.fn = "zoneIndex" /\ probe.done

\* C25 (Zone index in range): for every country entry and seed string each
\* value drawn from the seeded generator lies in [0, 1), and the zone index
\* floor(r * zoneCount) is in 0..zoneCount-1, is 0 when there is one zone,
\* and names an existing zone; the same holds of the draw for every word
\* the generator can yield, the largest included.
C25_ZoneIndexInRange ==
  /\ PickApplied =>
       LET n == Len(PickZones(countryBounds[probe.country])) IN
       /\ \A k \in 1..Len(probe.draws) : IsWord(probe.draws[k])
       /\ Len(probe.draws) = IF n > 1 THEN 3 ELSE 2
       /\ probe.ret.zone - 1 \in 0..(n - 1)
       /\ probe.ret.zone - 1 = IF n > 1 THEN FloorOfProduct(probe.draws[1], n) ELSE 0
       /\ probe.ret.zone \in DOMAIN PickZones(countryBounds[probe.country])
  /\ ZoneIndexApplied =>
       /\ probe.ret \in 0..(probe.count - 1)
       /\ probe.ret = IF probe.count > 1 THEN FloorOfProduct(probe.word, probe.count) ELSE 0

\* A seed of India drew the last of its eight zones
C25_Witness ==
  /\ PickApplied
  /\ probe.country = "India"
  /\ probe.ret.zone = 8

\* The largest word drew the last of eight zones
C25_LargestWordDrawn ==
  /\ ZoneIndexApplied
  /\ probe.word = << 65535, 65535 >> /\ probe.count = 8 /\ probe.ret = 7

\* x XOR y on numbers below 2^16
RECURSIVE BitXor(_, _)
BitXor(x, y) ==
  IF x = 0 /\ y = 0 THEN 0
  ELSE ((x + y) % 2) + 2 * BitXor(x \div 2, y \div 2)

\* One step of FNV-1a on h = hi * 2^16 + lo: XOR in the character code,
\* then multiply by 16777619 = 2^24 + 403 modulo 2^32
FoldStep(h, c) ==
  LET lo  == BitXor(h[2], c)
      low == lo * 403
  IN  << (h[1] * 403 + low \div 65536 + (lo % 256) * 256) % 65536, low % 65536 >>

RECURSIVE Fnv1a(_)
Fnv1a(s) ==
  IF s = << >> THEN << 33052, 40389 >>
  ELSE FoldStep(Fnv1a(SubSeq(s, 1, Len(s) - 1)), s[Len(s)])

HashApplied == probe.fn = "hash32" /\ probe.done

\* C26 (Seed hash): for every string hash32 is the FNV-1a fold modulo
\* 2^32, from 2166136261, XOR-ing in each character code in order and then
\* multiplying by 16777619; the result is an unsigned integer below 2^32,
\* 2166136261 for the empty string (and 0xE40C292C for "a", 0xBF9CF968 for
\* "foobar").
C26_SeedHash ==
  HashApplied =>
    /\ probe.ret = Fnv1a(probe.str)
    /\ IsWord(probe.ret)
    /\ probe.str = << >> => probe.ret = << 33052, 40389 >>
    /\ probe.str = << 97 >> => probe.ret = << 58380, 10540 >>
    /\ probe.str = << 102, 111, 111, 98, 97, 114 >> => probe.ret = << 49052, 63848 >>

\* A string of two characters, one of them above 255, was hashed
C26_Witness ==
  /\ HashApplied
  /\ probe.str = << 8364, 35 >>
  /\ probe.ret # << 33052, 40389 >>

\* ------------------------------------------------------------------------
\* The loading flag and the requests of the App component
\* ------------------------------------------------------------------------
SomePending == \E r \in Requests : Pending(r)

\* Some request was aborted by a later one
SomeSuperseded ==
  \E r \in Requests : app.ctl[r].st \in {"aborted", "rejected"}

\* C29: isLoading is true whenever a request started by loadEvents, by
\* the loadNews it chains or by loadEventDetails is in flight; the
\* settling of an aborted request never clears it under a newer one
C29_LoadingWhileInFlight == Quiescent /\ SomePending => app.isLoading

\* What holds of the flag: as long as no request has been aborted, it is
\* true while a request is in flight
C29_LoadingUntilSuperseded ==
  ~SomeSuperseded /\ SomePending => app.isLoading

\* The news request awaited by a loadEvents chain is in flight, flag set
C29_ChainedNewsInFlight ==
  /\ ~SomeSuperseded
  /\ \E r \in Requests : Pending(r) /\ app.ctl[r].fn = "news"

\* The requests whose responses wrote the state now shown, 0 for none
Writers ==
  { app.events, app.articles, app.countries, app.selectedEvent, app.pins }
    \ {0}

\* C30: every loader aborts the request requestRef holds before it
\* issues its own, so at most one request is in flight un-aborted (the
\* one requestRef holds), and a response is applied only while no later
\* request has been started: what events, articles, countries,
\* selectedEvent and the pins show was never written by a superseded
\* request
C30_SupersededNeverApplied ==
  /\ Cardinality({ r \in Requests : Pending(r) }) <= 1
  /\ \A r \in Requests : Pending(r) => app.requestRef = r
  /\ \A r \in Requests :
       app.ctl[r].st = "fulfilled" => app.ctl[r].rank = r
  /\ \A w \in Writers : app.ctl[w].st = "fulfilled"

\* A request was aborted by a later one, whose response then wrote the
\* pins; the aborted one wrote nothing
C30_Witness ==
  \E r, s \in Requests :
    /\ r < s
    /\ app.ctl[r].st = "rejected"
    /\ app.ctl[s].st = "fulfilled"
    /\ app.pins = s
    /\ r \notin Writers
============================================================================
